---------------------------- MODULE Spec2Model ----------------------------
(***************************************************************************)
(* A model of the 2D particle/constraint physics engine (src/physics).     *)
(*                                                                         *)
(* Numbers.  The program computes in IEEE doubles.  Here every length,     *)
(* position and velocity component is a fixed-point integer counting       *)
(* 1/Scale world units, every dimensionless coefficient (stiffness,        *)
(* percent, restitution, friction, tear factor) counts 1/One, and an       *)
(* inverse mass counts 1/MassLcm.  A product is exact; a quotient is       *)
(* rounded toward zero (Div), which is symmetric in sign as float          *)
(* arithmetic is.  A time step dt is the rational dt.num / dt.den.         *)
(*                                                                         *)
(* Objects.  Python particles are objects held by reference: heap maps an  *)
(* object identity to the particle's fields, world.particles (particles)   *)
(* is a list of identities, and a constraint holds identities.  Python     *)
(* list indices are kept 0-based, as the code stores them in groups and    *)
(* neighbour lists; At(s, i) reads s[i].                                   *)
(***************************************************************************)
EXTENDS Integers, Sequences, FiniteSets, TLC

VARIABLES
    heap,                  \* object identity -> Particle fields
    particles,             \* World.particles: list of particle identities
    constraints,           \* World.constraints: list of constraint objects
    groups,                \* World.groups: list of solver objects
    group_map,             \* World._group_map: group id -> index in groups
    next_group_id,         \* World._next_group_id
    verlet_list,           \* World._verlet_list (None or neighbour lists)
    verlet_frame_counter,  \* World._verlet_frame_counter
    verlet_last_n,         \* World._verlet_last_n
    world,                 \* World's scalar parameters
    disk,                  \* the file save_world writes and load_world reads
    raised,                \* whether the last call left with an exception
    calls,                 \* the calls the last update's relaxation loop made
    hist,                  \* the last operation, its arguments and pre-state
    shared,                \* the Manager dictionary of main.py and gui_controller.py
    gui,                   \* the panel process: position in run_gui, locals, widgets
    main                   \* the main loop: position in its poll of shared, locals

vars == <<heap, particles, constraints, groups, group_map, next_group_id,
          verlet_list, verlet_frame_counter, verlet_last_n, world, disk, raised,
          calls, hist, shared, gui, main>>

-----------------------------------------------------------------------------
(* Fixed-point arithmetic *)

Scale == 10 * 10
One == 10 * 10
MassLcm == 2 * 30

Abs(a) == IF a < 0 THEN -a ELSE a
Sign(a) == IF a < 0 THEN -1 ELSE IF a > 0 THEN 1 ELSE 0
Min(a, b) == IF a <= b THEN a ELSE b
Max(a, b) == IF a >= b THEN a ELSE b

\* float division a / b, rounded toward zero
Div(a, b) ==
    IF (a >= 0) = (b > 0) THEN Abs(a) \div Abs(b) ELSE -(Abs(a) \div Abs(b))

RECURSIVE SqrtIter(_, _, _)
SqrtIter(n, lo, hi) ==
    IF lo >= hi THEN lo
    ELSE LET mid == (lo + hi + 1) \div 2
         IN  IF mid * mid <= n THEN SqrtIter(n, mid, hi)
             ELSE SqrtIter(n, lo, mid - 1)

\* floor of the square root
ISqrt(n) == SqrtIter(n, 0, Min(n, 46340))

-----------------------------------------------------------------------------
(* Vec2 *)

Vec2(x, y) == [x |-> x, y |-> y]
VZero == Vec2(0, 0)
VAdd(a, b) == Vec2(a.x + b.x, a.y + b.y)
VSub(a, b) == Vec2(a.x - b.x, a.y - b.y)
Length(v) == ISqrt(v.x * v.x + v.y * v.y)

\* the unit vector d / len, its components counting 1/NDen
NDen == 10 * 10 * 10
Normal(d, len) == Vec2(Div(d.x * NDen, len), Div(d.y * NDen, len))

\* the vector n * mag for a unit vector n
Scaled(n, mag) == Vec2(Div(n.x * mag, NDen), Div(n.y * mag, NDen))
Dot(v, n) == Div(v.x * n.x + v.y * n.y, NDen)

\* v * dt and v / dt for the rational dt
TimesDt(v, dt) == Vec2(Div(v.x * dt.num, dt.den), Div(v.y * dt.num, dt.den))
OverDt(v, dt) == Vec2(Div(v.x * dt.den, dt.num), Div(v.y * dt.den, dt.num))

-----------------------------------------------------------------------------
(* Sequences *)

\* the sequence a function on 1..n is, with every element evaluated
AsSeq(f) == f \o <<>>

\* sequencing: the value v is computed, and then F of it
Then(v, F(_)) == CHOOSE r \in {F(x) : x \in {v}} : TRUE

At(s, i) == s[i + 1]
InRange(s, i) == i >= 0 /\ i < Len(s)

RECURSIVE Flatten(_)
Flatten(ss) == IF ss = <<>> THEN <<>> ELSE Head(ss) \o Flatten(Tail(ss))

RemoveAt(s, i) == SubSeq(s, 1, i) \o SubSeq(s, i + 2, Len(s))

-----------------------------------------------------------------------------
(* Particle *)

Particle(pos, vel, radius, mass, fixed) ==
    [pos |-> pos, vel |-> vel, radius |-> radius, mass |-> mass, fixed |-> fixed]

\* an inverse mass that ignores the mass
InvMassUnit(p) == IF p.fixed \/ p.mass = 0 THEN 0 ELSE MassLcm

\* Particle._update_inv_mass: inv_mass is recomputed whenever mass or fixed is set
InvMass(p) == IF p.fixed \/ p.mass = 0 THEN 0 ELSE MassLcm \div p.mass

-----------------------------------------------------------------------------
(* Constraints: DistanceConstraint, Spring, PinConstraint, and the older   *)
(* DistanceConstraint of physics/constraints.py ("LegacyDistance").  One   *)
(* record shape serves all kinds; a field a kind does not have is 0.       *)

NoObj == 0

Constraint(kind, p, p1, p2, rest, stiffness, damping, pos, percent, slop) ==
    [kind |-> kind, p |-> p, p1 |-> p1, p2 |-> p2, rest |-> rest,
     stiffness |-> stiffness, damping |-> damping, pos |-> pos,
     percent |-> percent, slop |-> slop]

\* DistanceConstraint.__init__ (compliance stays 0.0: classic PBD)
DistanceConstraint(p1, p2, distance, stiffness) ==
    Constraint("Distance", NoObj, p1, p2, distance, stiffness, 0, VZero, 0, 0)

\* Spring.__init__: damping None -> 2 * sqrt(stiffness)
DefaultDamping(stiffness) == 2 * ISqrt(stiffness * One * One)
Spring(p1, p2, length, stiffness, damping) ==
    Constraint("Spring", NoObj, p1, p2, length, stiffness, damping, VZero, 0, 0)

\* PinConstraint.__init__ stores the anchor; the caller applies PinInit to the heap
PinConstraint(p, pos) ==
    Constraint("Pin", p, NoObj, NoObj, 0, 0, 0, pos, 0, 0)
PinInit(h, p) == [h EXCEPT ![p].fixed = TRUE]

\* constraints.DistanceConstraint.__init__: slop None -> max(0.01, 5% of distance)
LegacyPercent == One \div 20
LegacySlop(distance) == Max(Scale \div 100, Div(distance * 5, 100))
LegacyDistance(p1, p2, distance, percent, slop) ==
    Constraint("LegacyDistance", NoObj, p1, p2, distance, 0, 0, VZero, percent, slop)

\* hasattr(c, 'p1') / hasattr(c, 'p2'): every kind but Pin derives from TwoPointConstraint
HasEndpoints(c) == c.kind # "Pin"

\* coincident endpoints pushed apart along the x axis
DistancePushApart(h, c) ==
    IF h[c.p1].pos = h[c.p2].pos /\ ~h[c.p2].fixed
    THEN [h EXCEPT ![c.p2].pos = VAdd(@, Vec2(c.rest, 0))] ELSE h

\* DistanceConstraint.update(dt): classic PBD projection.
\* len_d < eps (1e-9) is len_d = 0 at this resolution.
DistanceUpdate(h, c) ==
    LET pi == h[c.p1].pos
        pj == h[c.p2].pos
        wi == InvMass(h[c.p1])
        wj == InvMass(h[c.p2])
        d == VSub(pj, pi)
        len_d == Length(d)
    IN  IF len_d <= 0 \/ wi + wj = 0 THEN h
        ELSE LET n == Normal(d, len_d)
                 C == len_d - c.rest
                 wsum == wi + wj
                 mi == Div(wi * c.stiffness * C, wsum * One)
                 mj == Div(wj * c.stiffness * C, wsum * One)
                 h1 == [h EXCEPT ![c.p1].pos = VAdd(@, Scaled(n, mi))]
             IN  [h1 EXCEPT ![c.p2].pos = VSub(@, Scaled(n, mj))]

\* constraints.DistanceConstraint.update(): percent / slop correction
LegacyDistanceUpdate(h, c) ==
    LET p1 == h[c.p1]
        p2 == h[c.p2]
        delta == VSub(p2.pos, p1.pos)
        dist == Length(delta)
        diff == dist - c.rest
        inv_m1 == IF p1.fixed THEN 0 ELSE MassLcm \div p1.mass
        inv_m2 == IF p2.fixed THEN 0 ELSE MassLcm \div p2.mass
        inv_sum == inv_m1 + inv_m2
    IN  IF dist = 0 \/ Abs(diff) <= c.slop \/ inv_sum = 0 THEN h
        ELSE LET n == Normal(delta, dist)
                 correction == Div(diff * c.percent, One)
                 m1 == Div(correction * inv_m1, inv_sum)
                 m2 == Div(correction * inv_m2, inv_sum)
                 h1 == IF p1.fixed THEN h
                       ELSE [h EXCEPT ![c.p1].pos = VSub(@, Scaled(n, m1))]
             IN  IF p2.fixed THEN h1
                 ELSE [h1 EXCEPT ![c.p2].pos = VAdd(@, Scaled(n, m2))]

\* PinConstraint.update(): to the anchor, velocity zeroed
PinUpdate(h, c) == [h EXCEPT ![c.p].pos = c.pos, ![c.p].vel = VZero]

\* Spring.compute_force: force on p2
SpringMaxForce(stiffness) == Max(10000 * Scale, Abs(stiffness) * 1000 * Scale)
SpringForce(h, c) ==
    LET direction == VSub(h[c.p2].pos, h[c.p1].pos)
        distance == Length(direction)
    IN  IF distance = 0 THEN VZero
        ELSE LET n == Normal(direction, distance)
                 x == distance - c.rest
                 v_rel == Dot(VSub(h[c.p2].vel, h[c.p1].vel), n)
                 raw == -(c.stiffness * x + Div(c.damping * v_rel, One))
                 max_force == SpringMaxForce(c.stiffness)
                 force_scalar == IF Abs(raw) > max_force
                                 THEN Sign(raw) * max_force ELSE raw
             IN  Scaled(n, force_scalar)

\* c.update(dt) as World.update calls it, inside try/except: Pin.update and the
\* legacy Distance update take no dt, so the call raises TypeError, which is
\* swallowed, and the constraint does nothing.
UpdateWithDt(h, c) ==
    IF c.kind = "Distance" THEN DistanceUpdate(h, c) ELSE h

-----------------------------------------------------------------------------
(* Collision *)

\* detect_particle_collision
Detect(p1, p2) ==
    LET dx == p1.pos.x - p2.pos.x
        dy == p1.pos.y - p2.pos.y
        rsum == p1.radius + p2.radius
    IN  dx * dx + dy * dy < rsum * rsum

\* inverse mass as resolve_particle_collision computes it
CollisionInvMass(p) ==
    IF p.fixed THEN 0 ELSE IF p.mass # 0 THEN MassLcm \div p.mass ELSE 0

\* an even split of the correction, whatever the masses
ShareEvenly(correction_mag, inv, inv_sum) == correction_mag \div 2

\* the share of the correction a particle with inverse mass inv takes
Share(correction_mag, inv, inv_sum) == Div(correction_mag * inv, inv_sum)

\* the correction without its clamp
CorrectionUnclamped(penetration, percent, slop, max_correction) ==
    Div((penetration - slop) * percent, One)

\* correction magnitude: (penetration - slop) * percent clamped to max_correction
CorrectionMag(penetration, percent, slop, max_correction) ==
    Min(Div((penetration - slop) * percent, One), max_correction)

\* an impulse in place of the correction: approaching particles exchange
\* their velocities
ResolveWithImpulse(h, a, b, percent, slop, max_correction) ==
    LET delta == VSub(h[b].pos, h[a].pos)
        rv == VSub(h[b].vel, h[a].vel)
    IN  IF rv.x * delta.x + rv.y * delta.y < 0
        THEN [h EXCEPT ![a].vel = h[b].vel, ![b].vel = h[a].vel]
        ELSE h

\* resolve_particle_collision(p1, p2, restitution, percent, slop, max_correction)
\* on the objects a and b; dist <= 1e-9 is dist = 0 at this resolution.
Resolve(h, a, b, percent, slop, max_correction) ==
    LET p1 == h[a]
        p2 == h[b]
        delta == VSub(p2.pos, p1.pos)
        dist == Length(delta)
        normal == IF dist <= 0 THEN Vec2(NDen, 0) ELSE Normal(delta, dist)
        inv_mass1 == CollisionInvMass(p1)
        inv_mass2 == CollisionInvMass(p2)
        inv_mass_sum == inv_mass1 + inv_mass2
        penetration == (p1.radius + p2.radius) - dist
    IN  IF (p1.fixed /\ p2.fixed) \/ inv_mass_sum = 0 \/ penetration <= slop THEN h
        ELSE LET correction_mag ==
                     CorrectionMag(penetration, percent, slop, max_correction)
                 d1 == Share(correction_mag, inv_mass1, inv_mass_sum)
                 d2 == Share(correction_mag, inv_mass2, inv_mass_sum)
                 h1 == IF p1.fixed THEN h
                       ELSE [h EXCEPT ![a].pos = VSub(@, Scaled(normal, d1))]
             IN  IF p2.fixed THEN h1
                 ELSE [h1 EXCEPT ![b].pos = VAdd(@, Scaled(normal, d2))]

-----------------------------------------------------------------------------
(* Group solvers: RigidBody and Cloth.  One record shape serves both.      *)

Group(kind, indices, rest_rel, stiffness, fixed, width, height, tear, cs) ==
    [kind |-> kind, indices |-> indices, rest_rel |-> rest_rel,
     stiffness |-> stiffness, fixed |-> fixed, rest_com |-> VZero,
     width |-> width, height |-> height, tear_distance_factor |-> tear,
     constraints |-> cs]

\* RigidBody.__init__
RigidBody(indices, rest_rel, stiffness, fixed) ==
    Group("RigidBody", indices, rest_rel, stiffness, fixed, 0, 0, 0, <<>>)

\* Cloth.__init__ (solver.__init__ leaves fixed False)
Cloth(indices, width, height, tear_distance_factor, stiffness) ==
    Group("Cloth", indices, <<>>, stiffness, FALSE, width, height,
          tear_distance_factor, <<>>)

RECURSIVE SumPos(_, _)
SumPos(h, ps) ==
    IF ps = <<>> THEN VZero ELSE VAdd(h[Head(ps)].pos, SumPos(h, Tail(ps)))

\* the sums a and b of RigidBody.solve over zip(ps, rest_rel)
RECURSIVE ShapeSums(_, _, _, _)
ShapeSums(h, ps, rest_rel, com) ==
    IF ps = <<>> \/ rest_rel = <<>> THEN [a |-> 0, b |-> 0]
    ELSE LET px == h[Head(ps)].pos.x - com.x
             py == h[Head(ps)].pos.y - com.y
             r == Head(rest_rel)
             rest == ShapeSums(h, Tail(ps), Tail(rest_rel), com)
         IN  [a |-> px * r.x + py * r.y + rest.a,
              b |-> px * r.y - py * r.x + rest.b]

\* (cos(theta), sin(theta)) for theta = atan2(b, a), that is (a, b) normalised;
\* a and b are scaled down first to keep the squares in range
Rotation(a, b) ==
    IF a = 0 /\ b = 0 THEN [cos |-> NDen, sin |-> 0]
    ELSE LET k == Max(Abs(a), Abs(b)) \div 10000 + 1
             as == Div(a, k)
             bs == Div(b, k)
             hyp == ISqrt(as * as + bs * bs)
         IN  [cos |-> Div(as * NDen, hyp), sin |-> Div(bs * NDen, hyp)]

\* the projection loop of RigidBody.solve over zip(ps, rest_rel)
RECURSIVE ShapeProject(_, _, _, _, _, _)
ShapeProject(h, ps, rest_rel, com, rot, alpha) ==
    IF ps = <<>> \/ rest_rel = <<>> THEN h
    ELSE LET id == Head(ps)
             p == h[id]
             r == Head(rest_rel)
             tx == com.x + Div(rot.cos * r.x - rot.sin * r.y, NDen)
             ty == com.y + Div(rot.sin * r.x + rot.cos * r.y, NDen)
             moved == Vec2(p.pos.x + Div(alpha * (tx - p.pos.x), One),
                           p.pos.y + Div(alpha * (ty - p.pos.y), One))
             h1 == IF p.fixed THEN h ELSE [h EXCEPT ![id].pos = moved]
         IN  ShapeProject(h1, Tail(ps), Tail(rest_rel), com, rot, alpha)

\* RigidBody.solve(world, dt) on the particle list plist: the pair (heap, group).
\* world.particles[i] with i out of range raises IndexError before anything is
\* changed; World.update swallows it.
RigidBodySolve(h, plist, g) ==
    IF Len(g.indices) = 0 \/ g.fixed THEN [heap |-> h, group |-> g]
    ELSE IF \E k \in 1..Len(g.indices) : ~InRange(plist, g.indices[k])
    THEN [heap |-> h, group |-> g]
    ELSE LET ps == AsSeq([k \in 1..Len(g.indices) |-> At(plist, g.indices[k])])
         IN  IF Len(ps) = 1 THEN [heap |-> h, group |-> g]
             ELSE LET sum == SumPos(h, ps)
                      com == Vec2(Div(sum.x, Len(ps)), Div(sum.y, Len(ps)))
                      ab == ShapeSums(h, ps, g.rest_rel, com)
                      rot == Rotation(ab.a, ab.b)
                      alpha == Max(0, Min(One, g.stiffness))
                  IN  [heap |-> ShapeProject(h, ps, g.rest_rel, com, rot, alpha),
                       group |-> [g EXCEPT !.rest_com = com]]

RECURSIVE UpdateAll(_, _)
UpdateAll(h, cs) ==
    IF cs = <<>> THEN h
    ELSE Then(DistanceUpdate(h, Head(cs)), LAMBDA h1 : UpdateAll(h1, Tail(cs)))

\* the tear test of Cloth.solve for one constraint
Torn(h, c, tear_distance_factor) ==
    Length(VSub(h[c.p1].pos, h[c.p2].pos)) * One >= c.rest * tear_distance_factor

RECURSIVE KeepUntorn(_, _, _)
KeepUntorn(h, cs, tear_distance_factor) ==
    IF cs = <<>> THEN <<>>
    ELSE (IF Torn(h, Head(cs), tear_distance_factor) THEN <<>> ELSE <<Head(cs)>>)
         \o KeepUntorn(h, Tail(cs), tear_distance_factor)

\* Cloth.solve(world, dt)
ClothSolve(h, g) ==
    IF g.fixed THEN [heap |-> h, group |-> g]
    ELSE LET h1 == UpdateAll(h, g.constraints)
         IN  [heap |-> h1,
              group |-> IF g.tear_distance_factor > 0
                        THEN [g EXCEPT !.constraints =
                                 KeepUntorn(h1, @, g.tear_distance_factor)]
                        ELSE g]

\* g.solve(self, dt)
GroupSolve(h, plist, g) ==
    IF g.kind = "Cloth" THEN ClothSolve(h, g) ELSE RigidBodySolve(h, plist, g)

-----------------------------------------------------------------------------
(* World.update(dt) *)

\* World.__init__ defaults that depend on the size
DefaultCellSize(width, height) == Max(8 * Scale, Div(Min(width, height), 10))
DefaultVerletSkin(cell_size) == Max(Scale \div 2, Div(cell_size * 4, 10))

\* the arguments World._handle_collisions passes to resolve_particle_collision
CollisionPercent == One \div 5
CollisionSlop == Scale \div 100
MaxCorrection == Scale \div 2

NoVerletList == [present |-> FALSE, neigh |-> <<>>]

InWorld(plist, id) == \E k \in 1..Len(plist) : plist[k] = id

\* a spring that pushes both of its endpoints the same way
ForceOnSame(f_on_j, c, id) == IF id \in {c.p1, c.p2} THEN f_on_j ELSE VZero

\* the sum of the spring forces on particle id (forces[j] += f; forces[i] -= f),
\* over the springs whose two endpoints are both in world.particles
ForceOn(f_on_j, c, id) ==
    VSub(IF c.p2 = id THEN f_on_j ELSE VZero, IF c.p1 = id THEN f_on_j ELSE VZero)

RECURSIVE SpringSum(_, _, _, _)
SpringSum(h, plist, cs, id) ==
    IF cs = <<>> THEN VZero
    ELSE VAdd(SpringSum(h, plist, Tail(cs), id),
              IF Head(cs).kind = "Spring" /\ InWorld(plist, Head(cs).p1)
                 /\ InWorld(plist, Head(cs).p2)
              THEN ForceOn(SpringForce(h, Head(cs)), Head(cs), id) ELSE VZero)

\* gravity * mass - vel * friction, for a non-fixed particle
GlobalForce(p, w) ==
    IF p.fixed THEN VZero
    ELSE Vec2(w.gravity.x * p.mass - Div(p.vel.x * w.friction, One),
              w.gravity.y * p.mass - Div(p.vel.y * w.friction, One))

\* a position advance with the velocity the particle had before the step
MoveWithOld(p, vel, dt) ==
    [p EXCEPT !.vel = vel,
              !.pos = IF ~p.fixed THEN VAdd(p.pos, TimesDt(p.vel, dt)) ELSE p.pos]

\* steps 1-3 of World.update: forces at the current state, then velocities,
\* then positions from the new velocities
MoveWith(p, vel, dt) ==
    [p EXCEPT !.vel = vel,
              !.pos = IF ~p.fixed THEN VAdd(p.pos, TimesDt(vel, dt)) ELSE p.pos]

Accelerate(p, force, dt) ==
    MoveWith(p, IF ~p.fixed /\ p.mass # 0
                THEN VAdd(p.vel, TimesDt(Vec2(Div(force.x, p.mass),
                                              Div(force.y, p.mass)), dt))
                ELSE p.vel, dt)

IntegrateParticle(h, plist, cs, w, dt, id) ==
    Accelerate(h[id], VAdd(GlobalForce(h[id], w), SpringSum(h, plist, cs, id)), dt)

Integrate(h, plist, cs, w, dt) ==
    AsSeq([id \in DOMAIN h |->
        IF InWorld(plist, id) THEN IntegrateParticle(h, plist, cs, w, dt, id)
        ELSE h[id]])

\* one pass over world.constraints: every non-Spring constraint's update(dt)
RECURSIVE ConstraintPass(_, _)
ConstraintPass(h, cs) ==
    IF cs = <<>> THEN h
    ELSE Then(IF Head(cs).kind # "Spring" THEN UpdateWithDt(h, Head(cs)) ELSE h,
              LAMBDA h1 : ConstraintPass(h1, Tail(cs)))

\* one pass over world.groups: g.solve(self, dt); k is the next group (1-based)
RECURSIVE GroupPass(_, _, _, _)
GroupPass(h, plist, gs, k) ==
    IF k > Len(gs) THEN [heap |-> h, groups |-> gs]
    ELSE Then(GroupSolve(h, plist, gs[k]),
              LAMBDA r : GroupPass(r.heap, plist, [gs EXCEPT ![k] = r.group], k + 1))

\* every constraint's update called, Springs included
PassCallsAll(cs, gs) ==
    AsSeq([k \in 1..Len(cs) |-> [call |-> "update", kind |-> cs[k].kind, on |-> k]])
    \o AsSeq([k \in 1..Len(gs) |-> [call |-> "solve", kind |-> gs[k].kind, on |-> k]])

\* the calls one pass of the relaxation loop makes, in order: c.update(dt) for
\* the constraints that are not Springs, then g.solve(self, dt) for the groups
PassCalls(cs, gs) ==
    SelectSeq(AsSeq([k \in 1..Len(cs) |-> [call |-> "update", kind |-> cs[k].kind, on |-> k]]),
              LAMBDA c : c.kind # "Spring")
    \o AsSeq([k \in 1..Len(gs) |-> [call |-> "solve", kind |-> gs[k].kind, on |-> k]])

\* a single pass whatever the number asked for
RelaxOnce(h, plist, cs, gs, passes) ==
    Then(ConstraintPass(h, cs), LAMBDA h1 :
    Then(GroupPass(h1, plist, gs, 1), LAMBDA r :
         [heap |-> r.heap, groups |-> r.groups, calls |-> <<PassCalls(cs, gs)>>]))

\* for _ in range(max(1, int(constraint_iterations))): the loop over the
\* passes; calls lists the calls of every pass
RECURSIVE Relax(_, _, _, _, _)
Relax(h, plist, cs, gs, passes) ==
    IF passes <= 0 THEN [heap |-> h, groups |-> gs, calls |-> <<>>]
    ELSE Then(ConstraintPass(h, cs), LAMBDA h1 :
         Then(GroupPass(h1, plist, gs, 1), LAMBDA r :
         Then(Relax(r.heap, plist, cs, r.groups, passes - 1), LAMBDA rest :
              [rest EXCEPT !.calls = <<PassCalls(cs, gs)>> \o @])))

\* a clamp that does not skip fixed particles
BoundaryConstraintsAll(p, w) ==
    [p EXCEPT !.pos = Vec2(Max(p.radius, Min(w.width - p.radius, p.pos.x)),
                           Max(p.radius, Min(w.height - p.radius, p.pos.y)))]

\* a clamp of the lower sides only
BoundaryConstraintsLow(p, w) ==
    IF p.fixed THEN p
    ELSE [p EXCEPT !.pos = Vec2(Max(p.radius, p.pos.x), Max(p.radius, p.pos.y))]

\* World._apply_boundary_constraints
BoundaryConstraints(p, w) ==
    IF p.fixed THEN p
    ELSE LET x == IF p.pos.x < p.radius THEN p.radius
                  ELSE IF p.pos.x > w.width - p.radius THEN w.width - p.radius
                  ELSE p.pos.x
             y == IF p.pos.y < p.radius THEN p.radius
                  ELSE IF p.pos.y > w.height - p.radius THEN w.height - p.radius
                  ELSE p.pos.y
         IN  [p EXCEPT !.pos = Vec2(x, y)]

ClampAll(h, plist, w) ==
    AsSeq([id \in DOMAIN h |->
        IF InWorld(plist, id) THEN BoundaryConstraints(h[id], w) ELSE h[id]])

\* no restitution at the walls
NoRestitution(p, w) == p

\* World._apply_boundary_restitution
BoundaryRestitution(p, w) ==
    IF p.fixed THEN p
    ELSE LET vx == IF (p.pos.x <= p.radius /\ p.vel.x < 0)
                      \/ (p.pos.x >= w.width - p.radius /\ p.vel.x > 0)
                   THEN Div(-(p.vel.x * w.restitution), One) ELSE p.vel.x
             vy == IF (p.pos.y <= p.radius /\ p.vel.y < 0)
                      \/ (p.pos.y >= w.height - p.radius /\ p.vel.y > 0)
                   THEN Div(-(p.vel.y * w.restitution), One) ELSE p.vel.y
         IN  [p EXCEPT !.vel = Vec2(vx, vy)]

-----------------------------------------------------------------------------
(* Verlet neighbour list and collision handling *)

\* key_for(p): (int(p.pos.x // cs), int(p.pos.y // cs)) with cs = max(1e-6, cell_size)
CellKey(p, cell_size) ==
    LET cs == Max(1, cell_size) IN <<p.pos.x \div cs, p.pos.y \div cs>>

\* the nine neighbour offsets, in the order of the loops over dx and dy
Offsets == << <<-1, -1>>, <<-1, 0>>, <<-1, 1>>, <<0, -1>>, <<0, 0>>, <<0, 1>>,
              <<1, -1>>, <<1, 0>>, <<1, 1>> >>

RECURSIVE MaxRadius(_, _)
MaxRadius(h, plist) ==
    IF plist = <<>> THEN 0 ELSE Max(h[Head(plist)].radius, MaxRadius(h, Tail(plist)))

\* the (i, j) pairs, i < j, that World._rebuild_verlet_list finds, in the
\* order it appends them: cells in insertion order, then offsets, then i, then j
NeighbourEvents(h, plist, w) ==
    LET n == Len(plist)
        idxs == AsSeq([k \in 1..n |-> k - 1])
        cutoff == 2 * MaxRadius(h, plist) + w.verlet_skin
        KeyOf(i) == CellKey(h[At(plist, i)], w.cell_size)
        firsts == SelectSeq(idxs, LAMBDA i : \A j \in 0..(i - 1) : KeyOf(j) # KeyOf(i))
        Members(key) == SelectSeq(idxs, LAMBDA i : KeyOf(i) = key)
        Near(i, j) ==
            LET dxp == h[At(plist, j)].pos.x - h[At(plist, i)].pos.x
                dyp == h[At(plist, j)].pos.y - h[At(plist, i)].pos.y
            IN  dxp * dxp + dyp * dyp <= cutoff * cutoff
        Found(key, off) ==
            LET idx_list == Members(key)
                other_list == Members(<<key[1] + off[1], key[2] + off[2]>>)
            IN  Flatten(AsSeq([a \in 1..Len(idx_list) |->
                    LET i == idx_list[a]
                        js == SelectSeq(other_list, LAMBDA j : i < j /\ Near(i, j))
                    IN  AsSeq([b \in 1..Len(js) |-> <<i, js[b]>>])]))
    IN  Flatten(AsSeq([c \in 1..Len(firsts) |->
            Flatten(AsSeq([o \in 1..Len(Offsets) |-> Found(KeyOf(firsts[c]), Offsets[o])]))]))

\* neigh[i]: the partners of i in the order the events append them
NeighbourLists(events, n) ==
    AsSeq([k \in 1..n |->
        LET sel == SelectSeq(events, LAMBDA e : e[1] = k - 1 \/ e[2] = k - 1)
        IN  AsSeq([m \in 1..Len(sel) |->
                IF sel[m][1] = k - 1 THEN sel[m][2] ELSE sel[m][1]])])

\* World._rebuild_verlet_list (n > 0)
RebuildVerletList(h, plist, w) ==
    [present |-> TRUE,
     neigh |-> NeighbourLists(NeighbourEvents(h, plist, w), Len(plist))]

\* the unique unordered pairs World._handle_collisions derives from the list
PairsOf(vl) ==
    Flatten(AsSeq([k \in 1..Len(vl.neigh) |->
        LET js == SelectSeq(vl.neigh[k], LAMBDA j : k - 1 < j)
        IN  AsSeq([m \in 1..Len(js) |-> <<k - 1, js[m]>>])]))

\* the narrow phase on one pair: the squared-distance test, then
\* detect_particle_collision and resolve_particle_collision
ResolvePair(h, a, b) ==
    IF (h[b].pos.x - h[a].pos.x) * (h[b].pos.x - h[a].pos.x)
         + (h[b].pos.y - h[a].pos.y) * (h[b].pos.y - h[a].pos.y)
       > (h[a].radius + h[b].radius) * (h[a].radius + h[b].radius)
    THEN h
    ELSE IF Detect(h[a], h[b])
    THEN Resolve(h, a, b, CollisionPercent, CollisionSlop, MaxCorrection)
    ELSE h

\* the narrow phase over the pairs of one iteration, in list order
RECURSIVE ResolvePairs(_, _, _)
ResolvePairs(h, plist, pairs) ==
    IF pairs = <<>> THEN h
    ELSE Then(ResolvePair(h, At(plist, Head(pairs)[1]), At(plist, Head(pairs)[2])),
              LAMBDA h1 : ResolvePairs(h1, plist, Tail(pairs)))

\* whether an iteration of World._handle_collisions rebuilds the list
NeedsRebuild(vl, last_n, counter, n, w) ==
    \/ ~vl.present
    \/ last_n # n
    \/ counter % Max(1, w.verlet_rebuild_freq) = 0

\* one iteration of World._handle_collisions on st = (heap, list, counter,
\* last_n, rebuilds); the list then has len n, so the spatial-hash fallback
\* below it in the code is never reached
CollisionIteration(st, plist, w) ==
    Then(NeedsRebuild(st.vl, st.last_n, st.counter, Len(plist), w), LAMBDA rebuild :
    Then(IF rebuild THEN RebuildVerletList(st.heap, plist, w) ELSE st.vl, LAMBDA vl :
         [heap |-> ResolvePairs(st.heap, plist, PairsOf(vl)),
          vl |-> vl,
          counter |-> (IF rebuild THEN 0 ELSE st.counter + 1) + 1,
          last_n |-> Len(plist),
          rebuilds |-> st.rebuilds + (IF rebuild THEN 1 ELSE 0)]))

\* World._handle_collisions: max(1, int(collision_iterations)) iterations
RECURSIVE HandleCollisions(_, _, _, _)
HandleCollisions(st, plist, w, iterations) ==
    IF iterations = 0 THEN st
    ELSE Then(CollisionIteration(st, plist, w),
              LAMBDA st1 : HandleCollisions(st1, plist, w, iterations - 1))

\* a velocity update that keeps the velocity of the force integration
KeepVelocity(p, before, dt) == p

\* a velocity update that adds the displacement velocity to the integrated one
AddVelocity(p, before, dt) ==
    IF ~p.fixed /\ dt.num > 0
    THEN [p EXCEPT !.vel = VAdd(@, OverDt(VSub(p.pos, before.pos), dt))] ELSE p

\* the velocity update of World.update for one particle
ReconcileVelocity(p, before, dt) ==
    IF ~p.fixed /\ dt.num > 0
    THEN [p EXCEPT !.vel = OverDt(VSub(p.pos, before.pos), dt)] ELSE p

\* the last two steps of World.update: velocities from the corrected
\* positions, then restitution at the walls
Reconcile(h, final, plist, w, dt) ==
    AsSeq([id \in DOMAIN h |->
        IF InWorld(plist, id)
        THEN BoundaryRestitution(ReconcileVelocity(final[id], h[id], dt), w)
        ELSE final[id]])

\* World.update after the integration: relaxation, clamp, collisions, clamp,
\* velocity update and restitution; h is the heap before the integration
FinishUpdate(h, integrated, plist, cs, gs, vl, counter, last_n, w, dt) ==
    Then(Relax(integrated, plist, cs, gs, Max(1, w.constraint_iterations)),
         LAMBDA relaxed :
    Then(ClampAll(relaxed.heap, plist, w), LAMBDA clamped :
    Then(HandleCollisions([heap |-> clamped, vl |-> vl, counter |-> counter,
                           last_n |-> last_n, rebuilds |-> 0],
                          plist, w, Max(1, w.collision_iterations)),
         LAMBDA collided :
    Then(ClampAll(collided.heap, plist, w), LAMBDA final :
         [heap |-> Reconcile(h, final, plist, w, dt),
          groups |-> relaxed.groups, vl |-> collided.vl,
          counter |-> collided.counter, last_n |-> collided.last_n,
          rebuilds |-> collided.rebuilds, calls |-> relaxed.calls]))))

\* World.update(dt) on a non-empty world: the state after the call
UpdateResult(h, plist, cs, gs, vl, counter, last_n, w, dt) ==
    Then(Integrate(h, plist, cs, w, dt), LAMBDA integrated :
         FinishUpdate(h, integrated, plist, cs, gs, vl, counter, last_n, w, dt))

-----------------------------------------------------------------------------
(* The world's structure and the operations that edit it.  ws is the       *)
(* record of the mutable collections; the actions below copy it to and     *)
(* from the variables.  A particle object is allocated on the heap         *)
(* (NewParticle) and its identity is its place there.                      *)

EmptyWorld ==
    [heap |-> <<>>, particles |-> <<>>, constraints |-> <<>>, groups |-> <<>>,
     group_map |-> <<>>, next_group_id |-> 1]

\* World.__init__(width, height, gravity, friction, restitution, ...)
WorldParams(width, height, gravity, friction, restitution, constraint_iterations) ==
    [width |-> width, height |-> height, gravity |-> gravity,
     friction |-> friction, restitution |-> restitution,
     collision_iterations |-> 4,
     constraint_iterations |-> constraint_iterations,
     cell_size |-> DefaultCellSize(width, height),
     verlet_rebuild_freq |-> 5,
     verlet_skin |-> DefaultVerletSkin(DefaultCellSize(width, height))]

\* Particle(...): a new object
NewParticle(ws, p) == [ws EXCEPT !.heap = Append(@, p)]

\* World.add_particle
AddParticle(ws, id) == [ws EXCEPT !.particles = Append(@, id)]

\* World.add_constraint; constructing a PinConstraint marks its particle fixed
AddConstraint(ws, c) ==
    [ws EXCEPT !.constraints = Append(@, c),
               !.heap = IF c.kind = "Pin" THEN PinInit(@, c.p) ELSE @]

\* Particle.__eq__: equal position, radius, mass and fixed flag
ParticleEq(h, a, b) ==
    /\ h[a].pos = h[b].pos
    /\ h[a].radius = h[b].radius
    /\ h[a].mass = h[b].mass
    /\ h[a].fixed = h[b].fixed

\* x in list / list.index(x) / list.remove(x): identity first, then __eq__
Matches(h, a, b) == a = b \/ ParticleEq(h, a, b)

RECURSIVE IndexOf(_, _, _, _)
IndexOf(h, plist, id, k) ==
    IF k > Len(plist) THEN -1
    ELSE IF Matches(h, plist[k], id) THEN k - 1
    ELSE IndexOf(h, plist, id, k + 1)

\* whether World.remove_particle keeps the constraint c
KeepsConstraint(h, c, id) ==
    /\ ~(HasEndpoints(c) /\ ParticleEq(h, c.p1, id))
    /\ ~(HasEndpoints(c) /\ ParticleEq(h, c.p2, id))

\* World.remove_particle(particle)
RemoveParticle(ws, id) ==
    LET idx == IndexOf(ws.heap, ws.particles, id, 1)
    IN  IF idx < 0 THEN ws
        ELSE [ws EXCEPT
                !.particles = RemoveAt(@, idx),
                !.constraints =
                    SelectSeq(@, LAMBDA c : KeepsConstraint(ws.heap, c, id))]

\* the indices World.create_group converts its argument to: an int is taken
\* as it is, a particle is looked up with list.index and skipped when absent.
\* An item is [int |-> TRUE, v |-> index] or [int |-> FALSE, v |-> object].
RECURSIVE GroupIndices(_, _, _)
GroupIndices(h, plist, items) ==
    IF items = <<>> THEN <<>>
    ELSE LET it == Head(items)
             idx == IF it.int THEN it.v ELSE IndexOf(h, plist, it.v, 1)
         IN  (IF idx < 0 THEN <<>> ELSE <<idx>>)
             \o GroupIndices(h, plist, Tail(items))

\* World.create_group(particles, stiffness, fixed).  No indices: returns None.
\* An int out of range raises IndexError before anything is changed.
CreateGroup(ws, items, stiffness, fixed) ==
    LET indices == GroupIndices(ws.heap, ws.particles, items)
    IN  IF indices = <<>> \/ \E k \in 1..Len(indices) : ~InRange(ws.particles, indices[k])
        THEN ws
        ELSE LET ps == AsSeq([k \in 1..Len(indices) |-> At(ws.particles, indices[k])])
                 sum == SumPos(ws.heap, ps)
                 n == Len(indices)
                 rest_com == Vec2(Div(sum.x, n), Div(sum.y, n))
                 rest_rel == AsSeq([k \in 1..n |-> VSub(ws.heap[ps[k]].pos, rest_com)])
             IN  [ws EXCEPT
                     !.groups = Append(@, RigidBody(indices, rest_rel, stiffness, fixed)),
                     !.group_map = Append(@, <<ws.next_group_id, Len(ws.groups)>>),
                     !.next_group_id = @ + 1]

RECURSIVE Pow(_, _)
Pow(b, e) == IF e = 0 THEN 1 ELSE b * Pow(b, e - 1)

\* k_prime of Cloth.build_constraints: 1 - (1 - stiffness) ** (1 / iterations)
KPrime(stiffness, iterations) ==
    IF iterations > 0
    THEN LET x == One - stiffness
             root == CHOOSE r \in 0..One :
                        /\ Pow(r, iterations) <= x * Pow(One, iterations - 1)
                        /\ \A q \in (r + 1)..One :
                              Pow(q, iterations) > x * Pow(One, iterations - 1)
         IN  One - root
    ELSE stiffness

\* a grid lookup that checks the index only, so that a row runs into the next
BuildConstraintsWrapped(h, ids, width, height, k_prime) ==
    LET Get(x, y) == IF 0 <= y * width + x /\ y * width + x < width * height
                     THEN ids[y * width + x + 1] ELSE NoObj
        Link(p1, p2) ==
            IF p2 = NoObj THEN <<>>
            ELSE <<DistanceConstraint(p1, p2,
                       Length(VSub(h[p1].pos, h[p2].pos)), k_prime)>>
        At4(x, y) == Link(Get(x, y), Get(x + 1, y)) \o Link(Get(x, y), Get(x, y + 1))
                     \o Link(Get(x, y), Get(x + 1, y + 1))
                     \o Link(Get(x, y), Get(x - 1, y + 1))
    IN  Flatten(AsSeq([k \in 1..(width * height) |->
                    At4((k - 1) % width, (k - 1) \div width)]))

\* Cloth.build_constraints: the constraints in the order they are appended.
\* ids are the cloth's particles, row by row; width and height count particles.
BuildConstraints(h, ids, width, height, k_prime) ==
    LET Get(x, y) == IF 0 <= x /\ x < width /\ 0 <= y /\ y < height
                     THEN ids[y * width + x + 1] ELSE NoObj
        Link(p1, p2) ==
            IF p2 = NoObj THEN <<>>
            ELSE <<DistanceConstraint(p1, p2,
                       Length(VSub(h[p1].pos, h[p2].pos)), k_prime)>>
        At4(x, y) == Link(Get(x, y), Get(x + 1, y)) \o Link(Get(x, y), Get(x, y + 1))
                     \o Link(Get(x, y), Get(x + 1, y + 1))
                     \o Link(Get(x, y), Get(x - 1, y + 1))
    IN  Flatten(AsSeq([k \in 1..(width * height) |->
                    At4((k - 1) % width, (k - 1) \div width)]))

\* World.create_cloth(top_left_pos, width, height, segments_x, segments_y,
\* tear_factor, pin_corners, stiffness); pin_corners is a set of corner names
CreateCloth(ws, top_left_pos, width, height, segments_x, segments_y, tear_factor, pin_corners, stiffness, constraint_iterations) ==
    LET num_particles_x == segments_x + 1
        num_particles_y == segments_y + 1
        dx == Div(width, segments_x)
        dy == Div(height, segments_y)
        count == num_particles_x * num_particles_y
        Pinned(k) ==
            \/ ("top_left" \in pin_corners /\ k = 0)
            \/ ("top_right" \in pin_corners /\ k = num_particles_x - 1)
            \/ ("bottom_left" \in pin_corners /\ k = num_particles_x * (num_particles_y - 1))
            \/ ("bottom_right" \in pin_corners /\ k = count - 1)
        made == AsSeq([k \in 1..count |->
                    Particle(Vec2(top_left_pos.x + ((k - 1) % num_particles_x) * dx,
                                  top_left_pos.y + ((k - 1) \div num_particles_x) * dy),
                             VZero, 4 * Scale, 1, Pinned(k - 1))])
        start_index == Len(ws.particles)
        ids == AsSeq([k \in 1..count |-> Len(ws.heap) + k])
        indices == AsSeq([k \in 1..count |-> start_index + k - 1])
        h == ws.heap \o made
        cloth == [Cloth(indices, num_particles_x, num_particles_y, tear_factor, stiffness)
                    EXCEPT !.constraints =
                        BuildConstraints(h, ids, num_particles_x, num_particles_y,
                                         KPrime(stiffness, constraint_iterations))]
    IN  [ws EXCEPT !.heap = h,
                   !.particles = @ \o ids,
                   !.groups = Append(@, cloth)]

\* World.remove_group(group_id): the map is rebuilt over all of its old keys
GroupIndex(gmap, gid) ==
    IF \E k \in 1..Len(gmap) : gmap[k][1] = gid
    THEN gmap[CHOOSE k \in 1..Len(gmap) : gmap[k][1] = gid][2]
    ELSE -1

RemoveGroup(ws, gid) ==
    LET idx == GroupIndex(ws.group_map, gid)
    IN  IF idx < 0 THEN ws
        ELSE [ws EXCEPT
                !.groups = RemoveAt(@, idx),
                !.group_map = AsSeq([k \in 1..Len(@) |-> <<@[k][1], k - 1>>])]

\* World._solve_groups(dt): every group's solve, exceptions swallowed
GroupsSolved(ws, r) == [ws EXCEPT !.heap = r.heap, !.groups = r.groups]

SolveGroups(ws) == GroupsSolved(ws, GroupPass(ws.heap, ws.particles, ws.groups, 1))

\* _mouse_motion of main.py: the dragged particle is held fixed at the cursor
MouseMotion(ws, id, pos) ==
    [ws EXCEPT !.heap[id].fixed = TRUE, !.heap[id].vel = VZero, !.heap[id].pos = pos]

-----------------------------------------------------------------------------
(* History: the last operation, its arguments and the state before it.     *)
(* members[k] lists the particle objects group k's indices designated when *)
(* the group was created; stale counts the update calls since the last     *)
(* rebuild of the neighbour list.                                          *)

History(op, ws, arg, pos, dt, rebuilds, stale, updates, members) ==
    [op |-> op, heap |-> ws.heap, particles |-> ws.particles,
     constraints |-> ws.constraints, groups |-> ws.groups, arg |-> arg,
     pos |-> pos, dt |-> dt, rebuilds |-> rebuilds, stale |-> stale,
     updates |-> updates, members |-> members]

NoDt == [num |-> 0, den |-> 1]

\* the objects each group's indices designate in the particle list plist
Designated(plist, gs) ==
    AsSeq([k \in 1..Len(gs) |->
        AsSeq([m \in 1..Len(gs[k].indices) |->
            IF InRange(plist, gs[k].indices[m])
            THEN At(plist, gs[k].indices[m]) ELSE NoObj])])

Start(ws) ==
    History("init", ws, NoObj, VZero, NoDt, 0, 0, 0, Designated(ws.particles, ws.groups))

WS == [heap |-> heap, particles |-> particles, constraints |-> constraints,
       groups |-> groups, group_map |-> group_map, next_group_id |-> next_group_id]

SetWS(ws) ==
    /\ heap' = ws.heap
    /\ particles' = ws.particles
    /\ constraints' = ws.constraints
    /\ groups' = ws.groups
    /\ group_map' = ws.group_map
    /\ next_group_id' = ws.next_group_id

\* no file has been written yet
NoFile == [state |-> "none", width |-> 0, height |-> 0, gravity |-> VZero,
           particles |-> <<>>, constraints |-> <<>>]

\* main(): _shared as set up before the panel process starts; the spring_*
\* keys are absent until a Spring is selected
Absent == -1
NoSelection == [type |-> "None", index |-> -1, length |-> Absent, stiffness |-> Absent, damping |-> Absent]
NoShared == [selected_constraint |-> NoSelection, spring_length |-> Absent, spring_stiffness |-> Absent, spring_damping |-> Absent]

\* run_gui before its loop: the spring window hidden, nothing entered yet
NoPanel == [pc |-> "selected", selected |-> NoSelection, shown |-> FALSE, input |-> [length |-> Absent, stiffness |-> Absent, damping |-> Absent], entered |-> [length |-> Absent, stiffness |-> Absent, damping |-> Absent], entries |-> 0]

\* the main loop at the top of a frame
NoPoll == [pc |-> "events", sc |-> NoSelection]

\* a call that returns normally, does not touch the file and does not run the
\* relaxation loop
Returns == raised' = FALSE /\ calls' = <<>> /\ UNCHANGED <<disk, shared, gui, main>>

InitWith(ws, w) ==
    /\ heap = ws.heap
    /\ particles = ws.particles
    /\ constraints = ws.constraints
    /\ groups = ws.groups
    /\ group_map = ws.group_map
    /\ next_group_id = ws.next_group_id
    /\ verlet_list = NoVerletList
    /\ verlet_frame_counter = 0
    /\ verlet_last_n = 0
    /\ world = w
    /\ disk = NoFile
    /\ raised = FALSE
    /\ calls = <<>>
    /\ hist = Start(ws)
    /\ shared = NoShared
    /\ gui = NoPanel
    /\ main = NoPoll

-----------------------------------------------------------------------------
(* Spec: worlds of two or three particles, stepped by World.update.        *)

MaxUpdates == 2

V(x, y) == Vec2(x * Scale, y * Scale)

\* dt = 1/FPS (constants.py)
FPS == 60
Dts == {[num |-> 1, den |-> FPS]}

Gravities == {VZero, V(0, 981)}
Tunings == {[collision_iterations |-> 4, verlet_rebuild_freq |-> 5],
            [collision_iterations |-> 1, verlet_rebuild_freq |-> 2]}

\* 40 x 30 worlds, and one world lower than a particle of radius 10 is high
Worlds ==
    {[WorldParams(40 * Scale, 30 * Scale, g, One \div 10, One \div 2, 2)
        EXCEPT !.collision_iterations = t.collision_iterations,
               !.verlet_rebuild_freq = t.verlet_rebuild_freq] :
        g \in Gravities, t \in Tunings}
    \cup {WorldParams(40 * Scale, 15 * Scale, VZero, One \div 10, One \div 2, 2)}

Pos1 == {V(15, 15), V(5, 15), V(15, 25)}
Pos2 == {V(20, 15), V(28, 15), V(15, 15)}
Bodies == {[mass |-> 1, vel |-> VZero], [mass |-> 2, vel |-> V(30, 0)]}
Links == {"none", "distance", "spring", "pin", "legacy", "group"}

\* two particles added to an empty world, a third optionally, and a link
Scene(p1, p2, third, link) ==
    LET two == AddParticle(NewParticle(AddParticle(NewParticle(EmptyWorld, p1), 1), p2), 2)
        ws == IF third
              THEN AddParticle(NewParticle(two,
                       Particle(V(28, 22), VZero, 4 * Scale, 1, TRUE)), 3)
              ELSE two
    IN  CASE link = "none" -> ws
          [] link = "distance" ->
                AddConstraint(ws, DistanceConstraint(1, 2, 8 * Scale, One))
          [] link = "spring" ->
                AddConstraint(ws, Spring(1, 2, 8 * Scale, 15, DefaultDamping(15)))
          [] link = "pin" -> AddConstraint(ws, PinConstraint(1, V(15, 15)))
          [] link = "legacy" ->
                AddConstraint(ws, LegacyDistance(1, 2, 8 * Scale, LegacyPercent,
                                                 LegacySlop(8 * Scale)))
          [] link = "group" ->
                CreateGroup(ws, AsSeq([k \in 1..Len(ws.particles) |->
                                         [int |-> FALSE, v |-> k]]), One, FALSE)

Scenes(link) ==
    {Scene(Particle(x1, b.vel, 10 * Scale, b.mass, f1),
           Particle(x2, VZero, 10 * Scale, 1, f2), third, link) :
        x1 \in Pos1, b \in Bodies, f1 \in BOOLEAN, x2 \in Pos2, f2 \in BOOLEAN,
        third \in BOOLEAN}

Init == \E link \in Links : \E ws \in Scenes(link), w \in Worlds : InitWith(ws, w)

\* World.update(dt); an empty world returns at once
Commit(r, dt) ==
    /\ heap' = r.heap
    /\ groups' = r.groups
    /\ verlet_list' = r.vl
    /\ verlet_frame_counter' = r.counter
    /\ verlet_last_n' = r.last_n
    /\ hist' = History("update", WS, NoObj, VZero, dt, r.rebuilds,
                       IF r.rebuilds > 0 THEN 0 ELSE hist.stale + 1,
                       hist.updates + 1, hist.members)
    /\ raised' = FALSE
    /\ calls' = r.calls
    /\ UNCHANGED <<particles, constraints, group_map, next_group_id, world, disk,
                   shared, gui, main>>

Step(dt) ==
    IF Len(particles) = 0
    THEN /\ Returns
         /\ UNCHANGED <<heap, particles, constraints, groups, group_map,
                        next_group_id, verlet_list, verlet_frame_counter,
                        verlet_last_n, world>>
         /\ hist' = History("update", WS, NoObj, VZero, dt, 0, hist.stale,
                            hist.updates + 1, hist.members)
    ELSE Commit(UpdateResult(heap, particles, constraints, groups, verlet_list,
                             verlet_frame_counter, verlet_last_n, world, dt), dt)

Update(dt) == hist.updates < MaxUpdates /\ Step(dt)

Next == \E dt \in Dts : Update(dt)

Spec == Init /\ [][Next]_vars

-----------------------------------------------------------------------------
(* Properties of World.update, stated for Spec.                            *)

Updated == hist.op = "update"

WorldIds == {particles[k] : k \in 1..Len(particles)}

Pins == {constraints[k] : k \in {j \in 1..Len(constraints) : constraints[j].kind = "Pin"}}

OutOfBounds(p) ==
    \/ p.pos.x < p.radius
    \/ p.pos.x > world.width - p.radius
    \/ p.pos.y < p.radius
    \/ p.pos.y > world.height - p.radius

\* C1: a particle of the world whose fixed flag is set has, after
\* World.update, the position it had before the call, unless the update
\* moved it onto the anchor of a pin constraint that holds it.
FixedStaysPut ==
    Updated =>
        \A id \in WorldIds :
            hist.heap[id].fixed =>
                \/ heap[id].pos = hist.heap[id].pos
                \/ \E c \in Pins : c.p = id /\ heap[id].pos = c.pos

\* a fixed particle that lay outside the bounds, overlapped a free particle
\* which the update moved, in a world with gravity
FixedStaysPutWitness ==
    /\ Updated
    /\ world.gravity # VZero
    /\ \E id \in WorldIds, o \in WorldIds :
          /\ hist.heap[id].fixed
          /\ OutOfBounds(hist.heap[id])
          /\ ~hist.heap[o].fixed
          /\ Detect(hist.heap[id], hist.heap[o])
          /\ heap[o].pos # hist.heap[o].pos
          /\ heap[id].pos = hist.heap[id].pos

PinnedAtAnchor ==
    Updated => \A c \in Pins : heap[c.p].pos = c.pos /\ heap[c.p].vel = VZero

\* C7: two free overlapping particles at rest inside the bounds, alone in a
\* world without gravity and with collision_iterations = 4, are, after one
\* World.update, at least the sum of their radii less the collision slop
\* apart.
SeparatedAfterUpdate ==
    (/\ Updated
     /\ hist.updates = 1
     /\ world.collision_iterations = 4
     /\ world.gravity = VZero
     /\ Len(particles) = 2 /\ constraints = <<>> /\ groups = <<>>
     /\ \A id \in WorldIds :
           /\ ~hist.heap[id].fixed
           /\ hist.heap[id].vel = VZero
           /\ ~OutOfBounds(hist.heap[id])
     /\ Detect(hist.heap[particles[1]], hist.heap[particles[2]]))
    => Length(VSub(heap[particles[2]].pos, heap[particles[1]].pos))
          >= heap[particles[1]].radius + heap[particles[2]].radius - CollisionSlop

-----------------------------------------------------------------------------
(* SpecCollide: resolve_particle_collision applied to a pair of particles.  *)
(* The second particle lies on a horizontal or vertical line through the    *)
(* first, or on it, so that the components of the unit normal are exact.    *)

MaxResolves == 2

Masses == {1, 2, 3}
Offsets2 == {V(5, 0), V(12, 0), V(19, 0), V(-5, 0), V(0, 5), V(0, -12), V(0, 0), V(25, 0),
             Vec2(20 * Scale - CollisionSlop, 0), Vec2(0, 20 * Scale - 10 * CollisionSlop)}

\* velocities of the first particle: at rest, moving right, moving left
Approaches == {VZero, V(30, 0), V(-30, 0)}

Pairs ==
    {AddParticle(NewParticle(AddParticle(NewParticle(EmptyWorld,
         Particle(V(20, 15), v1, 10 * Scale, m1, f1)), 1),
         Particle(VAdd(V(20, 15), o), VZero, 10 * Scale, m2, f2)), 2) :
        m1 \in Masses, m2 \in Masses, f1 \in BOOLEAN, f2 \in BOOLEAN, o \in Offsets2,
        v1 \in Approaches}

InitCollide ==
    \E ws \in Pairs :
        InitWith(ws, WorldParams(40 * Scale, 30 * Scale, VZero, One \div 10, One \div 2, 2))

\* resolve_particle_collision(p1, p2, percent=0.2, slop=0.01, max_correction=0.5),
\* the call World._handle_collisions makes
ResolveCollision ==
    /\ hist.updates < MaxResolves
    /\ heap' = Resolve(heap, particles[1], particles[2],
                       CollisionPercent, CollisionSlop, MaxCorrection)
    /\ hist' = History("resolve", WS, NoObj, VZero, NoDt, 0, 0, hist.updates + 1,
                       hist.members)
    /\ Returns
    /\ UNCHANGED <<particles, constraints, groups, group_map, next_group_id,
                   verlet_list, verlet_frame_counter, verlet_last_n, world>>

NextCollide == ResolveCollision

SpecCollide == InitCollide /\ [][NextCollide]_vars

Resolved == hist.op = "resolve"

\* displacement of particle id over the last step
Moved(id) == VSub(heap[id].pos, hist.heap[id].pos)

Cross(a, b) == a.x * b.y - a.y * b.x

\* C6: resolve_particle_collision on two overlapping particles displaces
\* them along the line of centres in opposite directions (the first away from
\* the second); when neither is fixed the displacement magnitudes are equal
\* for equal masses and otherwise in the ratio of the inverse masses, to
\* within the one length unit that the division of the correction rounds
\* off; a fixed particle is not displaced and the other one then receives
\* the whole correction.
CollisionSymmetric ==
    (Resolved /\ Detect(hist.heap[1], hist.heap[2])) =>
        LET a == hist.heap[1]
            b == hist.heap[2]
            delta == VSub(b.pos, a.pos)
            line == IF delta = VZero THEN Vec2(1, 0) ELSE delta
            d1 == Moved(1)
            d2 == Moved(2)
            whole == CorrectionMag(a.radius + b.radius - Length(delta),
                                   CollisionPercent, CollisionSlop, MaxCorrection)
        IN  /\ Cross(d1, line) = 0 /\ Cross(d2, line) = 0
            /\ d1.x * line.x + d1.y * line.y <= 0
            /\ d2.x * line.x + d2.y * line.y >= 0
            /\ a.fixed => d1 = VZero
            /\ b.fixed => d2 = VZero
            /\ (a.fixed /\ ~b.fixed) => Length(d2) = whole
            /\ (b.fixed /\ ~a.fixed) => Length(d1) = whole
            /\ (~a.fixed /\ ~b.fixed) =>
                  /\ a.mass = b.mass => Length(d1) = Length(d2)
                  /\ Abs(Length(d1) * a.mass - Length(d2) * b.mass)
                        < Max(a.mass, b.mass)

\* an overlapping pair of unequal masses was resolved and both moved, the
\* lighter one further
CollisionSymmetricWitness ==
    /\ Resolved
    /\ Detect(hist.heap[1], hist.heap[2])
    /\ ~hist.heap[1].fixed /\ ~hist.heap[2].fixed
    /\ hist.heap[1].mass < hist.heap[2].mass
    /\ Length(Moved(1)) > Length(Moved(2))
    /\ Length(Moved(2)) > 0

-----------------------------------------------------------------------------
(* SpecRelax: two particles joined by one distance constraint, relaxed by   *)
(* calling the constraint's own update; nothing else acts on them.          *)

MaxPasses == 3

Rests == {4 * Scale, 8 * Scale}
Separations == {V(4, 0), V(6, 0), V(8, 0), V(10, 0), V(0, 12), V(0, -2)}
Anchoring == {<<FALSE, FALSE>>, <<TRUE, FALSE>>, <<FALSE, TRUE>>}

Joined(sep, fx, c) ==
    AddConstraint(
        AddParticle(NewParticle(AddParticle(NewParticle(EmptyWorld,
            Particle(V(20, 15), VZero, 1 * Scale, 1, fx[1])), 1),
            Particle(VAdd(V(20, 15), sep), VZero, 1 * Scale, 1, fx[2])), 2), c)

InitRelax ==
    \E sep \in Separations, fx \in Anchoring, rest \in Rests :
        \E c \in {DistanceConstraint(1, 2, rest, One),
                  LegacyDistance(1, 2, rest, LegacyPercent, LegacySlop(rest))} :
            InitWith(Joined(sep, fx, c),
                     WorldParams(40 * Scale, 30 * Scale, VZero, One \div 10, One \div 2, 2))

\* one relaxation pass: DistanceConstraint.update(dt) of DistanceConstraint.py
RelaxDistance ==
    /\ hist.updates < MaxPasses
    /\ constraints[1].kind = "Distance"
    /\ heap' = DistanceUpdate(heap, constraints[1])
    /\ hist' = History("relax", WS, NoObj, VZero, NoDt, 0, 0, hist.updates + 1,
                       hist.members)
    /\ Returns
    /\ UNCHANGED <<particles, constraints, groups, group_map, next_group_id,
                   verlet_list, verlet_frame_counter, verlet_last_n, world>>

\* one relaxation pass: DistanceConstraint.update() of constraints.py
RelaxLegacy ==
    /\ hist.updates < MaxPasses
    /\ constraints[1].kind = "LegacyDistance"
    /\ heap' = LegacyDistanceUpdate(heap, constraints[1])
    /\ hist' = History("relax", WS, NoObj, VZero, NoDt, 0, 0, hist.updates + 1,
                       hist.members)
    /\ Returns
    /\ UNCHANGED <<particles, constraints, groups, group_map, next_group_id,
                   verlet_list, verlet_frame_counter, verlet_last_n, world>>

NextRelax == RelaxDistance \/ RelaxLegacy

SpecRelax == InitRelax /\ [][NextRelax]_vars

\* | current length - rest distance | of constraint c in heap h
Violation(h, c) == Abs(Length(VSub(h[c.p2].pos, h[c.p1].pos)) - c.rest)

\* C9: for two particles joined by one distance constraint and subject to
\* nothing else, a relaxation pass leaves |length - rest| no larger than it
\* was, makes it strictly smaller when it was above the slop tolerance, and
\* applies no correction when it was within the slop tolerance.
RelaxationConverges ==
    hist.op = "relax" =>
        LET c == constraints[1]
            before == Violation(hist.heap, c)
            after == Violation(heap, c)
        IN  /\ after <= before
            /\ before > c.slop => after < before
            /\ before <= c.slop => heap = hist.heap

-----------------------------------------------------------------------------
(* SpecVerlet: the rebuild policy of the Verlet neighbour list over a run   *)
(* of World.update calls, for several rebuild frequencies and iteration     *)
(* counts, with a particle added now and then.                              *)

MaxFrames == 5
MaxBodies == 3

Frequencies == {1, 2, 3}
Iterations == {1, 2}

Sparse ==
    AddParticle(NewParticle(AddParticle(NewParticle(EmptyWorld,
        Particle(V(10, 10), VZero, 2 * Scale, 1, FALSE)), 1),
        Particle(V(30, 20), VZero, 2 * Scale, 1, FALSE)), 2)

InitVerlet ==
    \E f \in Frequencies, it \in Iterations, g \in Gravities :
        InitWith(Sparse,
                 [WorldParams(40 * Scale, 30 * Scale, g, One \div 10, One \div 2, 2)
                     EXCEPT !.collision_iterations = it, !.verlet_rebuild_freq = f])

Frame(dt) == hist.updates < MaxFrames /\ Step(dt)

\* world.add_particle(Particle(pos)) between two frames
AddBody(pos) ==
    /\ Len(heap) < MaxBodies
    /\ hist.updates \in 1..(MaxFrames - 1)
    /\ SetWS(AddParticle(NewParticle(WS, Particle(pos, VZero, 2 * Scale, 1, FALSE)),
                         Len(heap) + 1))
    /\ hist' = [hist EXCEPT !.op = "add", !.arg = Len(heap) + 1]
    /\ Returns
    /\ UNCHANGED <<verlet_list, verlet_frame_counter, verlet_last_n, world>>

NextVerlet ==
    \/ \E dt \in Dts : Frame(dt)
    \/ \E pos \in {V(20, 15), V(20, 25)} : AddBody(pos)

SpecVerlet == InitVerlet /\ [][NextVerlet]_vars

\* C8: for every verlet_rebuild_freq >= 1 and every collision_iterations,
\* the number of consecutive World.update calls that have reused the
\* neighbour list without rebuilding it never exceeds verlet_rebuild_freq.
StaleListBounded == hist.stale <= world.verlet_rebuild_freq

-----------------------------------------------------------------------------
(* SpecCloth: a cloth of 2 x 2 particles, 6 wide and 8 high, made by        *)
(* World.create_cloth; its corners are dragged with the mouse, its solver   *)
(* is run, and the world is stepped.                                        *)

MaxClothOps == 3

TearFactors == {0, One, 2 * One, 3 * One}
PinChoices == {{}, {"top_left"}, {"top_left", "top_right"}}
Stiffnesses == {One, (3 * One) \div 4}
DragTargets == {V(22, 8), V(34, 8), V(16, 8)}

InitCloth ==
    \E tear \in TearFactors, pins \in PinChoices, k \in Stiffnesses, g \in Gravities :
        InitWith(CreateCloth(EmptyWorld, V(10, 8), 6 * Scale, 8 * Scale, 1, 1,
                             tear, pins, k, 2),
                 WorldParams(40 * Scale, 30 * Scale, g, One \div 10, One \div 2, 2))

\* World._solve_groups(dt)
Solve ==
    /\ hist.updates < MaxClothOps
    /\ SetWS(SolveGroups(WS))
    /\ hist' = History("solve", WS, NoObj, VZero, NoDt, 0, hist.stale,
                       hist.updates + 1, hist.members)
    /\ Returns
    /\ UNCHANGED <<verlet_list, verlet_frame_counter, verlet_last_n, world>>

\* the mouse drags the cloth's second particle (its top right corner)
Drag(pos) ==
    /\ hist.updates < MaxClothOps
    /\ SetWS(MouseMotion(WS, 2, pos))
    /\ hist' = History("drag", WS, 2, pos, NoDt, 0, hist.stale,
                       hist.updates + 1, hist.members)
    /\ Returns
    /\ UNCHANGED <<verlet_list, verlet_frame_counter, verlet_last_n, world>>

StepCloth(dt) == hist.updates < MaxClothOps /\ Step(dt)

NextCloth ==
    \/ Solve
    \/ \E pos \in DragTargets : Drag(pos)
    \/ \E dt \in Dts : StepCloth(dt)

SpecCloth == InitCloth /\ [][NextCloth]_vars

\* C10: in Cloth.solve with tear factor > 0, a constraint of the cloth is
\* removed exactly when its current length exceeds rest distance x tear
\* factor; no operation puts a constraint back into the cloth's list, and
\* world.constraints stays as it was.
TearsExactlyWhenExceeding ==
    /\ constraints = hist.constraints
    /\ \A k \in 1..Len(groups) :
          /\ \A m \in 1..Len(groups[k].constraints) :
                \E j \in 1..Len(hist.groups[k].constraints) :
                    hist.groups[k].constraints[j] = groups[k].constraints[m]
          /\ (hist.op = "solve" /\ groups[k].tear_distance_factor > 0
              /\ ~groups[k].fixed) =>
                \A j \in 1..Len(hist.groups[k].constraints) :
                    LET c == hist.groups[k].constraints[j]
                    IN  (\A m \in 1..Len(groups[k].constraints) :
                            groups[k].constraints[m] # c)
                        <=> Length(VSub(heap[c.p1].pos, heap[c.p2].pos)) * One
                               > c.rest * groups[k].tear_distance_factor

-----------------------------------------------------------------------------
(* SpecEdit: a world built and edited by add_particle, add_constraint,      *)
(* remove_particle, create_group and create_cloth.  Two positions are       *)
(* enough for particles of equal value to occur.                            *)

MaxEdits == 4
MaxParticles == 3
MaxConstraints == 2
MaxGroups == 1

Spots == {V(10, 10), V(20, 10)}

\* the record of an edit: the groups made by it get their members listed
Edited(op, ws, arg) ==
    History(op, WS, arg, VZero, NoDt, 0, hist.stale, hist.updates + 1,
            IF Len(ws.groups) > Len(groups)
            THEN Append(hist.members,
                        Designated(ws.particles, ws.groups)[Len(ws.groups)])
            ELSE hist.members)

Edit(op, ws, arg) ==
    /\ hist.updates < MaxEdits
    /\ SetWS(ws)
    /\ hist' = Edited(op, ws, arg)
    /\ Returns
    /\ UNCHANGED <<verlet_list, verlet_frame_counter, verlet_last_n, world>>

\* world.add_particle(Particle(pos, radius=2))
Add(pos) ==
    /\ Len(heap) < MaxParticles
    /\ Edit("add", AddParticle(NewParticle(WS, Particle(pos, VZero, 2 * Scale, 1, FALSE)),
                               Len(heap) + 1), Len(heap) + 1)

\* world.add_constraint(DistanceConstraint(a, b, 10)), ...(Spring(a, b, 10, 15)),
\* ...(PinConstraint(a, a.pos))
Constrain(kind, a, b) ==
    /\ Len(constraints) < MaxConstraints
    /\ a # b
    /\ Edit("constrain",
            AddConstraint(WS,
                CASE kind = "Distance" -> DistanceConstraint(a, b, 10 * Scale, One)
                  [] kind = "Spring" -> Spring(a, b, 10 * Scale, 15, DefaultDamping(15))
                  [] kind = "Pin" -> PinConstraint(a, heap[a].pos)), a)

\* world.remove_particle(p), p any particle object made so far
Remove(id) == Edit("remove", RemoveParticle(WS, id), id)

\* world.create_group([a, b])
Gather(a, b) ==
    /\ Len(groups) < MaxGroups
    /\ a # b
    /\ Edit("group", CreateGroup(WS, <<[int |-> FALSE, v |-> a], [int |-> FALSE, v |-> b]>>,
                                 One, FALSE), a)

\* world.create_cloth(top_left, 6, 8, 1, 1)
Weave ==
    /\ Len(groups) < MaxGroups
    /\ Edit("cloth", CreateCloth(WS, V(10, 8), 6 * Scale, 8 * Scale, 1, 1, 3 * One, {},
                                 One, world.constraint_iterations), NoObj)

NextEdit ==
    \/ \E pos \in Spots : Add(pos)
    \/ \E kind \in {"Distance", "Spring", "Pin"}, a \in DOMAIN heap, b \in DOMAIN heap :
          Constrain(kind, a, b)
    \/ \E id \in DOMAIN heap : Remove(id)
    \/ \E a \in DOMAIN heap, b \in DOMAIN heap : Gather(a, b)
    \/ Weave

InitEdit ==
    InitWith(EmptyWorld,
             WorldParams(40 * Scale, 30 * Scale, VZero, One \div 10, One \div 2, 2))

SpecEdit == InitEdit /\ [][NextEdit]_vars

References(c, id) == c.p = id \/ c.p1 = id \/ c.p2 = id

Listed(cs, c) == \E k \in 1..Len(cs) : cs[k] = c

\* C3: after World.remove_particle(p) on a particle in the world, no
\* constraint left in world.constraints references p, whatever its kind;
\* every constraint that did not reference p is still there, and so is every
\* particle other than p.
RemovalPurges ==
    (hist.op = "remove" /\ InWorld(hist.particles, hist.arg)) =>
        /\ \A k \in 1..Len(constraints) : ~References(constraints[k], hist.arg)
        /\ \A k \in 1..Len(hist.constraints) :
              ~References(hist.constraints[k], hist.arg)
                  => Listed(constraints, hist.constraints[k])
        /\ \A k \in 1..Len(hist.particles) :
              hist.particles[k] # hist.arg => InWorld(particles, hist.particles[k])

\* C4: after any sequence of add_particle, create_group, create_cloth and
\* remove_particle, each index stored in a group designates the particle it
\* designated when the group was created.
GroupIndicesValid ==
    \A k \in 1..Len(groups) :
        \A m \in 1..Len(groups[k].indices) :
            /\ InRange(particles, groups[k].indices[m])
            /\ At(particles, groups[k].indices[m]) = hist.members[k][m]

-----------------------------------------------------------------------------
(* SpecSave: serialization.save_world and load_world on one file.  The     *)
(* world is empty or holds two or three particles and at most one link.     *)

MaxSaves == 3

\* the attributes a Particle object has (Particle.__init__ and its properties)
ParticleAttrs == {"pos", "vel", "radius", "_mass", "_fixed", "inv_mass", "mass", "fixed"}

\* the attributes PhysicsEncoder.default reads from a Particle
EncodedAttrs == {"pos", "old_pos", "acceleration", "radius", "mass", "fixed"}

\* PhysicsEncoder.default(obj) for a Particle: the attributes that exist
EncodeParticle(p) ==
    [pos |-> p.pos, radius |-> p.radius, mass |-> p.mass, fixed |-> p.fixed]

\* particle_to_idx[p] for the dict {p: i for i, p in enumerate(particles)}:
\* keys are hashed and compared by value, so of equal particles the index
\* of the last one stays; -1 stands for KeyError
RECURSIVE LastIndexOf(_, _, _, _)
LastIndexOf(h, plist, id, k) ==
    IF k = 0 THEN -1
    ELSE IF Matches(h, plist[k], id) THEN k - 1
    ELSE LastIndexOf(h, plist, id, k - 1)

\* the dict save_world appends for a DistanceConstraint or a Spring
SavedConstraint(h, plist, c) ==
    [kind |-> c.kind,
     p1_idx |-> LastIndexOf(h, plist, c.p1, Len(plist)),
     p2_idx |-> LastIndexOf(h, plist, c.p2, Len(plist)),
     rest |-> c.rest,
     stiffness |-> IF c.kind = "Spring" THEN c.stiffness ELSE 0]

\* data['constraints']: constraints of any other class are passed over
SavedConstraints(h, plist, cs) ==
    LET kept == SelectSeq(cs, LAMBDA c : c.kind \in {"Distance", "Spring"})
    IN  AsSeq([k \in 1..Len(kept) |-> SavedConstraint(h, plist, kept[k])])

\* save_world(world, filename) with the file old on disk: a KeyError leaves
\* before the file is opened; an AttributeError of the encoder leaves after
\* open(filename, 'w') and the part of the text already written
SaveWorld(ws, w, old) ==
    Then(SavedConstraints(ws.heap, ws.particles, ws.constraints), LAMBDA saved :
        IF \E k \in 1..Len(saved) : saved[k].p1_idx < 0 \/ saved[k].p2_idx < 0
        THEN [raised |-> TRUE, disk |-> old]
        ELSE IF ws.particles # <<>> /\ ~(EncodedAttrs \subseteq ParticleAttrs)
        THEN [raised |-> TRUE, disk |-> [NoFile EXCEPT !.state = "truncated"]]
        ELSE [raised |-> FALSE,
              disk |-> [state |-> "document", width |-> w.width,
                        height |-> w.height, gravity |-> w.gravity,
                        particles |-> AsSeq([k \in 1..Len(ws.particles) |->
                            EncodeParticle(ws.heap[ws.particles[k]])]),
                        constraints |-> saved]])

\* physics_decoder for a Particle dict: Particle(pos, radius, mass, fixed)
\* passes its arguments by position to Particle(pos, vel, radius, mass, fixed)
DecodeParticle(e) ==
    Particle(e.pos, e.radius, e.mass, IF e.fixed THEN 1 ELSE 0, FALSE)

\* the constraint load_world adds for a saved dict
LoadedConstraint(c) ==
    IF c.kind = "Distance"
    THEN DistanceConstraint(c.p1_idx + 1, c.p2_idx + 1, c.rest, One)
    ELSE Spring(c.p1_idx + 1, c.p2_idx + 1, c.rest, c.stiffness,
                DefaultDamping(c.stiffness))

\* the collections of the World load_world builds from a document
LoadedWS(d) ==
    [EmptyWorld EXCEPT
        !.heap = AsSeq([k \in 1..Len(d.particles) |-> DecodeParticle(d.particles[k])]),
        !.particles = AsSeq([k \in 1..Len(d.particles) |-> k]),
        !.constraints = AsSeq([k \in 1..Len(d.constraints) |->
                                  LoadedConstraint(d.constraints[k])])]

\* whether load_world raises: no file, a text json cannot parse, or a
\* constraint index outside the particle list
LoadRaises(d) ==
    \/ d.state # "document"
    \/ \E k \in 1..Len(d.constraints) :
          \/ ~InRange(d.particles, d.constraints[k].p1_idx)
          \/ ~InRange(d.particles, d.constraints[k].p2_idx)

Worlds2 ==
    {WorldParams(40 * Scale, 30 * Scale, g, f, One \div 2, c) :
        g \in Gravities, f \in {One \div 10, One \div 5}, c \in {2, 3}}

InitSave ==
    \E link \in Links : \E ws \in Scenes(link) \cup {EmptyWorld}, w \in Worlds2 :
        InitWith(ws, w)

\* save_world(world, filename)
Save ==
    /\ hist.updates < MaxSaves
    /\ raised' = SaveWorld(WS, world, disk).raised
    /\ disk' = SaveWorld(WS, world, disk).disk
    /\ calls' = <<>>
    /\ hist' = History("save", WS, NoObj, VZero, NoDt, 0, 0, hist.updates + 1,
                       hist.members)
    /\ UNCHANGED <<heap, particles, constraints, groups, group_map, next_group_id,
                   verlet_list, verlet_frame_counter, verlet_last_n, world,
                   shared, gui, main>>

\* world = load_world(filename); hist.arg is 1 when the call before was a save
Load ==
    /\ hist.updates < MaxSaves
    /\ raised' = LoadRaises(disk)
    /\ IF LoadRaises(disk)
       THEN UNCHANGED <<heap, particles, constraints, groups, group_map,
                        next_group_id, verlet_list, verlet_frame_counter,
                        verlet_last_n, world>>
       ELSE /\ SetWS(LoadedWS(disk))
            /\ verlet_list' = NoVerletList
            /\ verlet_frame_counter' = 0
            /\ verlet_last_n' = 0
            /\ world' = WorldParams(disk.width, disk.height, disk.gravity,
                                    One \div 10, One \div 2, 2)
    /\ hist' = History("load", WS, IF hist.op = "save" THEN 1 ELSE 0, VZero, NoDt,
                       0, 0, hist.updates + 1, hist.members)
    /\ calls' = <<>>
    /\ UNCHANGED <<disk, shared, gui, main>>

NextSave == Save \/ Load

SpecSave == InitSave /\ [][NextSave]_vars


\* C11: save_world followed by load_world succeeds and yields a world with
\* the same number and order of particles, the same position, velocity,
\* radius, mass and fixed flag for each of them, and constraints of the
\* same kinds, endpoints, rest lengths, stiffness and damping.
RoundTrips ==
    (hist.op = "load" /\ hist.arg = 1) =>
        /\ ~raised
        /\ Len(particles) = Len(hist.particles)
        /\ \A k \in 1..Len(particles) :
              heap[particles[k]] = hist.heap[hist.particles[k]]
        /\ Len(constraints) = Len(hist.constraints)
        /\ \A k \in 1..Len(constraints) :
              /\ constraints[k].kind = hist.constraints[k].kind
              /\ constraints[k].rest = hist.constraints[k].rest
              /\ constraints[k].stiffness = hist.constraints[k].stiffness
              /\ constraints[k].damping = hist.constraints[k].damping

-----------------------------------------------------------------------------
(* SpecRest: a world holding one free particle of radius 10 at rest, on a   *)
(* wall, in a corner or inside, stepped by World.update.                    *)

MaxRestSteps == 4

RestSpots == {V(20, 20), V(10, 15), V(10, 20), V(20, 10), V(30, 15), V(30, 10),
              V(20, 15), V(20, 5)}
RestGravities == {VZero, V(0, 981), V(-981, 0), V(500, -981), V(981, 981)}
RestWorlds ==
    {WorldParams(width * Scale, height * Scale, g, One \div 10, bounce, 2) :
        width \in {40}, height \in {30, 20, 15}, g \in RestGravities,
        bounce \in {One \div 2, One}}

InitRest ==
    \E pos \in RestSpots, w \in RestWorlds :
        InitWith(AddParticle(NewParticle(EmptyWorld,
                     Particle(pos, VZero, 10 * Scale, 1, FALSE)), 1), w)

\* world.update(dt)
Rest(dt) == hist.updates < MaxRestSteps /\ Step(dt)

NextRest == \E dt \in Dts : Rest(dt)

SpecRest == InitRest /\ [][NextRest]_vars

\* the particle lies inside the walls and touches one of them
OnBoundary(p, w) ==
    /\ ~OutOfBounds(p)
    /\ \/ p.pos.x \in {p.radius, w.width - p.radius}
       \/ p.pos.y \in {p.radius, w.height - p.radius}

\* gravity presses the particle against the walls it touches and has no
\* component along a direction in which it is free to move
Pressed(p, w) ==
    /\ \/ w.gravity.x = 0
       \/ w.gravity.x > 0 /\ p.pos.x = w.width - p.radius
       \/ w.gravity.x < 0 /\ p.pos.x = p.radius
    /\ \/ w.gravity.y = 0
       \/ w.gravity.y > 0 /\ p.pos.y = w.height - p.radius
       \/ w.gravity.y < 0 /\ p.pos.y = p.radius

Resting(p, w) == ~p.fixed /\ p.vel = VZero /\ OnBoundary(p, w) /\ Pressed(p, w)

-----------------------------------------------------------------------------
(* SpecSpring: two free particles of radius 2 and equal mass, at rest on a  *)
(* horizontal or vertical line in the middle of a 40 x 30 world without     *)
(* gravity, joined by one Spring and stepped by World.update.               *)

MaxSpringSteps == 2

SpringSeparations == {V(6, 0), V(10, 0), V(12, 0), V(0, 6), V(0, 10)}
SpringStretches == {-2, 0, 2, 6}
SpringStiffnesses == {15, 150, 1800, 3600, 5000}

\* the largest spring force the steps are followed to: beyond it the
\* products of the force computation leave 32-bit arithmetic
ForceLimit == 1000000

\* the spring is at least as long as the two radii together and its force
\* is within the limit
InitSpring ==
    \E sep \in SpringSeparations, stretch \in SpringStretches,
       stiffness \in SpringStiffnesses, mass \in {1, 2} :
        /\ Length(sep) - stretch * Scale >= 4 * Scale
        /\ stiffness * Abs(stretch) * Scale <= ForceLimit
        /\ InitWith(AddConstraint(
                     AddParticle(NewParticle(AddParticle(NewParticle(EmptyWorld,
                         Particle(V(14, 10), VZero, 2 * Scale, mass, FALSE)), 1),
                         Particle(VAdd(V(14, 10), sep), VZero, 2 * Scale, mass, FALSE)), 2),
                     Spring(1, 2, Length(sep) - stretch * Scale, stiffness,
                            DefaultDamping(stiffness))),
                 WorldParams(40 * Scale, 30 * Scale, VZero, One \div 10, One \div 2, 2))

SpringLoad ==
    constraints[1].stiffness * Violation(heap, constraints[1])
        + Div(constraints[1].damping * Length(VSub(heap[2].vel, heap[1].vel)), One)

\* world.update(dt)
StepSpring(dt) ==
    /\ hist.updates < MaxSpringSteps
    /\ SpringLoad <= ForceLimit
    /\ Step(dt)

NextSpring == \E dt \in Dts : StepSpring(dt)

SpecSpring == InitSpring /\ [][NextSpring]_vars

\* the state before the last update: two free particles of equal mass at
\* rest, not overlapping, joined by the spring
SpringAtRest ==
    /\ Updated
    /\ hist.heap[1].vel = VZero /\ hist.heap[2].vel = VZero
    /\ hist.heap[1].mass = hist.heap[2].mass
    /\ ~Detect(hist.heap[1], hist.heap[2])

\* the spring's stretch before the last update (negative when compressed)
Stretch ==
    Length(VSub(hist.heap[2].pos, hist.heap[1].pos)) - constraints[1].rest

\* what the pair does in the update, whatever the stiffness
SpringResponse(strictly) ==
    LET axis == VSub(hist.heap[2].pos, hist.heap[1].pos)
    IN  /\ VAdd(heap[1].vel, heap[2].vel) = VZero
        /\ Cross(heap[1].vel, axis) = 0
        /\ Violation(heap, constraints[1]) <= Violation(hist.heap, constraints[1])
        /\ strictly =>
              Violation(heap, constraints[1]) < Violation(hist.heap, constraints[1])

\* the force moves each particle by at least one unit of length in the step
Measurable(dt) ==
    constraints[1].stiffness * Abs(Stretch) * dt.num * dt.num
        >= hist.heap[1].mass * dt.den * dt.den

\* the stiffness for which a step of the integrator does not overshoot the
\* rest length by as much as the spring was off it: stiffness * dt^2 < mass
Stable(dt) ==
    constraints[1].stiffness * dt.num * dt.num < hist.heap[1].mass * dt.den * dt.den

-----------------------------------------------------------------------------
(* SpecFloat: World.update in floating point with its non-finite values.    *)
(* A coordinate is a finite number of magnitude at most FloatMax (which     *)
(* stands for the largest double), or one of PosInf, NegInf and NaN; a      *)
(* finite result beyond FloatMax overflows to an infinity.  The world holds *)
(* two free particles far apart, no constraint and no group, so that the    *)
(* relaxation loop of World.update has nothing to do.                       *)

MaxFloatSteps == 3

FloatMax == 10 * 1000 * 1000
PosInf == FloatMax + 1
NegInf == -PosInf
NaN == FloatMax + 2

IsFinite(a) == Abs(a) <= FloatMax

FRound(v) == IF v > FloatMax THEN PosInf ELSE IF v < -FloatMax THEN NegInf ELSE v

\* a + b
FAdd(a, b) ==
    IF a = NaN \/ b = NaN THEN NaN
    ELSE IF ~IsFinite(a) THEN (IF ~IsFinite(b) /\ b # a THEN NaN ELSE a)
    ELSE IF ~IsFinite(b) THEN b
    ELSE FRound(a + b)

\* a - b
FSub(a, b) == FAdd(a, IF b = NaN THEN NaN ELSE -b)

\* a * (num / den) for a finite factor, den > 0
FMulDiv(a, num, den) ==
    IF a = NaN THEN NaN
    ELSE IF IsFinite(a) THEN FRound(Div(a * num, den))
    ELSE IF num = 0 THEN NaN
    ELSE IF num > 0 THEN a ELSE -a

\* a < b and a <= b: false when either side is NaN
FLess(a, b) == a # NaN /\ b # NaN /\ a < b
FLeq(a, b) == a # NaN /\ b # NaN /\ a <= b

FinitePos(p) == IsFinite(p.pos.x) /\ IsFinite(p.pos.y)
FiniteParticle(p) == FinitePos(p) /\ IsFinite(p.vel.x) /\ IsFinite(p.vel.y)

\* steps 1 and 2 of World.update on one axis: the new velocity
FVel(g, vel, mass, friction, dt) ==
    FAdd(vel, FMulDiv(FMulDiv(FSub(FMulDiv(g, mass, 1), FMulDiv(vel, friction, One)),
                              1, mass), dt.num, dt.den))

\* step 3 on both axes, from the new velocity
FMove(p, vx, vy, dt) ==
    [p EXCEPT !.vel = Vec2(vx, vy),
              !.pos = Vec2(FAdd(p.pos.x, FMulDiv(vx, dt.num, dt.den)),
                           FAdd(p.pos.y, FMulDiv(vy, dt.num, dt.den)))]

FIntegrateParticle(p, w, dt) ==
    IF p.fixed THEN p
    ELSE IF p.mass = 0 THEN FMove(p, p.vel.x, p.vel.y, dt)
    ELSE FMove(p, FVel(w.gravity.x, p.vel.x, p.mass, w.friction, dt),
                  FVel(w.gravity.y, p.vel.y, p.mass, w.friction, dt), dt)

\* World._apply_boundary_constraints on one axis
FClampAxis(pos, lo, hi) ==
    IF FLess(pos, lo) THEN lo ELSE IF FLess(hi, pos) THEN hi ELSE pos

FClamp(p, w) ==
    IF p.fixed THEN p
    ELSE [p EXCEPT !.pos = Vec2(FClampAxis(p.pos.x, p.radius, w.width - p.radius),
                                FClampAxis(p.pos.y, p.radius, w.height - p.radius))]

\* p.vel = (p.pos - pos_before_integration[i]) / dt
FReconcile(p, before, dt) ==
    IF ~p.fixed /\ dt.num > 0
    THEN [p EXCEPT !.vel = Vec2(FMulDiv(FSub(p.pos.x, before.pos.x), dt.den, dt.num),
                                FMulDiv(FSub(p.pos.y, before.pos.y), dt.den, dt.num))]
    ELSE p

\* World._apply_boundary_restitution on one axis
FBounceAxis(pos, vel, lo, hi, bounce) ==
    IF (FLeq(pos, lo) /\ FLess(vel, 0)) \/ (FLeq(hi, pos) /\ FLess(0, vel))
    THEN FMulDiv(vel, -bounce, One) ELSE vel

FRestitution(p, w) ==
    IF p.fixed THEN p
    ELSE [p EXCEPT !.vel =
            Vec2(FBounceAxis(p.pos.x, p.vel.x, p.radius, w.width - p.radius, w.restitution),
                 FBounceAxis(p.pos.y, p.vel.y, p.radius, w.height - p.radius, w.restitution))]

FClampAll(h, plist, w) ==
    AsSeq([id \in DOMAIN h |-> IF InWorld(plist, id) THEN FClamp(h[id], w) ELSE h[id]])

\* one iteration of World._handle_collisions.  key_for in
\* _rebuild_verlet_list takes int() of a coordinate, which raises ValueError
\* for NaN; a pair of the list with a non-finite member passes both
\* distance tests as false and is left alone.
FCollisionIteration(st, plist, w) ==
    IF st.raised THEN st
    ELSE IF NeedsRebuild(st.vl, st.last_n, st.counter, Len(plist), w)
            /\ \E k \in 1..Len(plist) : ~FinitePos(st.heap[plist[k]])
    THEN [st EXCEPT !.raised = TRUE]
    ELSE Then(NeedsRebuild(st.vl, st.last_n, st.counter, Len(plist), w), LAMBDA rebuild :
         Then(IF rebuild THEN RebuildVerletList(st.heap, plist, w) ELSE st.vl, LAMBDA vl :
              [heap |-> ResolvePairs(st.heap, plist,
                            SelectSeq(PairsOf(vl), LAMBDA pr :
                                /\ FinitePos(st.heap[At(plist, pr[1])])
                                /\ FinitePos(st.heap[At(plist, pr[2])]))),
               vl |-> vl,
               counter |-> (IF rebuild THEN 0 ELSE st.counter + 1) + 1,
               last_n |-> Len(plist),
               raised |-> FALSE]))

RECURSIVE FHandleCollisions(_, _, _, _)
FHandleCollisions(st, plist, w, iterations) ==
    IF iterations = 0 THEN st
    ELSE Then(FCollisionIteration(st, plist, w),
              LAMBDA st1 : FHandleCollisions(st1, plist, w, iterations - 1))

\* the end of World.update after the collisions: clamp, velocities, restitution
FFinish(h, before, plist, w, dt) ==
    AsSeq([id \in DOMAIN h |->
        IF InWorld(plist, id)
        THEN FRestitution(FReconcile(FClamp(h[id], w), before[id], dt), w)
        ELSE h[id]])

\* World.update(dt) on a world without constraints and groups; when the
\* collision handling raises, the update is left where it was
FUpdateResult(h, plist, vl, counter, last_n, w, dt) ==
    Then(AsSeq([id \in DOMAIN h |->
             IF InWorld(plist, id) THEN FIntegrateParticle(h[id], w, dt) ELSE h[id]]),
         LAMBDA integrated :
    Then(FHandleCollisions([heap |-> FClampAll(integrated, plist, w), vl |-> vl,
                            counter |-> counter, last_n |-> last_n, raised |-> FALSE],
                           plist, w, Max(1, w.collision_iterations)),
         LAMBDA collided :
         IF collided.raised THEN collided
         ELSE [collided EXCEPT !.heap = FFinish(@, h, plist, w, dt)]))

FloatSpeeds == {0, 3000, FloatMax}
FloatWorlds ==
    {[WorldParams(40 * Scale, 30 * Scale, g, friction, One \div 2, 2)
        EXCEPT !.verlet_rebuild_freq = freq, !.collision_iterations = 1] :
        g \in {VZero, V(0, 981), Vec2(FloatMax, 0)},
        friction \in {One \div 10, 2 * One}, freq \in {1, 5}}

InitFloat ==
    \E speed \in FloatSpeeds, mass \in {1, 10}, w \in FloatWorlds :
        InitWith(AddParticle(NewParticle(AddParticle(NewParticle(EmptyWorld,
                     Particle(V(8, 8), Vec2(speed, 0), 2 * Scale, mass, FALSE)), 1),
                     Particle(V(30, 8), VZero, 2 * Scale, 1, FALSE)), 2), w)

FloatCommit(r, dt) ==
    /\ heap' = r.heap
    /\ verlet_list' = r.vl
    /\ verlet_frame_counter' = r.counter
    /\ verlet_last_n' = r.last_n
    /\ raised' = r.raised
    /\ calls' = AsSeq([pass \in 1..Max(1, world.constraint_iterations) |-> <<>>])
    /\ hist' = History("update", WS, NoObj, VZero, dt, 0, 0, hist.updates + 1,
                       hist.members)
    /\ UNCHANGED <<particles, constraints, groups, group_map, next_group_id, world,
                   disk, shared, gui, main>>

\* world.update(dt)
StepFloat(dt) ==
    /\ hist.updates < MaxFloatSteps
    /\ FloatCommit(FUpdateResult(heap, particles, verlet_list, verlet_frame_counter,
                                 verlet_last_n, world, dt), dt)

NextFloat == \E dt \in Dts : StepFloat(dt)

SpecFloat == InitFloat /\ [][NextFloat]_vars

\* what update(dt) makes of a particle that meets no other
Alone(p, w, dt) == FRestitution(FReconcile(FClamp(FIntegrateParticle(p, w, dt), w), p, dt), w)

\* the step gives the particle a non-finite position or velocity, in the
\* integration or in the velocity update
GoesNonFinite(p, w, dt) ==
    ~FiniteParticle(FIntegrateParticle(p, w, dt)) \/ ~FiniteParticle(Alone(p, w, dt))

\* C14: if a step of update(dt) would give a particle a non-finite position
\* or velocity, that particle keeps the position and velocity it had before
\* the step, and every other particle is updated normally.
NonFiniteRejected ==
    (Updated /\ \A id \in WorldIds : FiniteParticle(hist.heap[id])) =>
        \A id \in WorldIds :
            IF GoesNonFinite(hist.heap[id], world, hist.dt)
            THEN heap[id] = hist.heap[id]
            ELSE heap[id] = Alone(hist.heap[id], world, hist.dt)

-----------------------------------------------------------------------------
(* Further properties of the editing operations, stated for SpecEdit.       *)

\* C15: World.remove_particle called with a particle that is not in the
\* world (never added, or already removed) is a no-op: the particle list,
\* the constraint list and the groups are unchanged and no error is raised,
\* even when another particle in the world has the same position, radius,
\* mass and fixed flag.
RemoveAbsentIsNoOp ==
    (hist.op = "remove" /\ ~InWorld(hist.particles, hist.arg)) =>
        /\ ~raised
        /\ particles = hist.particles
        /\ constraints = hist.constraints
        /\ groups = hist.groups

-----------------------------------------------------------------------------
(* SpecBody: three free particles in a triangle, gathered into one          *)
(* RigidBody group; particles are dragged and removed and the groups are    *)
(* solved.                                                                  *)

MaxBodyOps == 3

BodyTargets == {V(12, 10), V(24, 18)}

InitBody ==
    \E stiffness \in {One, One \div 2}, apex \in {V(15, 18), V(18, 16)} :
        InitWith(CreateGroup(
                     AddParticle(NewParticle(AddParticle(NewParticle(AddParticle(
                         NewParticle(EmptyWorld,
                             Particle(V(10, 10), VZero, 2 * Scale, 1, FALSE)), 1),
                             Particle(V(20, 10), VZero, 2 * Scale, 1, FALSE)), 2),
                             Particle(apex, VZero, 2 * Scale, 1, FALSE)), 3),
                     <<[int |-> FALSE, v |-> 1], [int |-> FALSE, v |-> 2],
                       [int |-> FALSE, v |-> 3]>>, stiffness, FALSE),
                 WorldParams(40 * Scale, 30 * Scale, VZero, One \div 10, One \div 2, 2))

BodyOp(op, ws, arg, pos) ==
    /\ hist.updates < MaxBodyOps
    /\ SetWS(ws)
    /\ hist' = History(op, WS, arg, pos, NoDt, 0, hist.stale, hist.updates + 1,
                       hist.members)
    /\ Returns
    /\ UNCHANGED <<verlet_list, verlet_frame_counter, verlet_last_n, world>>

\* the mouse drags a particle of the world
DragBody(id, pos) == InWorld(particles, id) /\ BodyOp("drag", MouseMotion(WS, id, pos), id, pos)

\* world.remove_particle(p)
RemoveBody(id) == BodyOp("remove", RemoveParticle(WS, id), id, VZero)

\* World._solve_groups(dt)
SolveBody == BodyOp("solve", SolveGroups(WS), NoObj, VZero)

NextBody ==
    \/ \E id \in DOMAIN heap, pos \in BodyTargets : DragBody(id, pos)
    \/ \E id \in DOMAIN heap : RemoveBody(id)
    \/ SolveBody

SpecBody == InitBody /\ [][NextBody]_vars

\* the positions 1..Len(g.indices) whose index exists in the particle list
Present(g, plist) ==
    SelectSeq(AsSeq([k \in 1..Len(g.indices) |-> k]),
              LAMBDA k : InRange(plist, g.indices[k]))

\* the group g without the indices that no longer exist
Pruned(g, plist) ==
    [g EXCEPT !.indices = AsSeq([j \in 1..Len(Present(g, plist)) |->
                                    g.indices[Present(g, plist)[j]]]),
              !.rest_rel = AsSeq([j \in 1..Len(Present(g, plist)) |->
                                    g.rest_rel[Present(g, plist)[j]]])]

\* C16: when a group holds an index that no longer exists in
\* world.particles, its solve skips only that index and still applies the
\* solver to the remaining particles of the group (the particles end where
\* the solver would put them for the group without the missing index); the
\* step does not fail.
MissingIndexSkipped ==
    (/\ hist.op = "solve"
     /\ Len(hist.groups) = 1
     /\ Len(Present(hist.groups[1], hist.particles)) < Len(hist.groups[1].indices)) =>
        /\ ~raised
        /\ heap = RigidBodySolve(hist.heap, hist.particles,
                                 Pruned(hist.groups[1], hist.particles)).heap

-----------------------------------------------------------------------------
(* Further properties of World.update, stated for Spec.                     *)

\* the velocity of the net displacement of particle id over the last update
DisplacementVelocity(id) == OverDt(VSub(heap[id].pos, hist.heap[id].pos), hist.dt)

\* the velocity the force integration of the last update gave particle id
IntegratedVelocity(id) ==
    IntegrateParticle(hist.heap, hist.particles, hist.constraints, world, hist.dt, id).vel

\* C17: for every non-fixed particle and dt > 1e-9, the velocity held just
\* before the restitution pass is (position after all constraint, clamp and
\* collision corrections - position recorded before integration) / dt, so
\* that the final velocity is what the restitution pass makes of it; the
\* velocity produced by the force integration is discarded.
VelocityReconciled ==
    (Updated /\ hist.dt.num > 0) =>
        \A id \in WorldIds :
            ~heap[id].fixed =>
                heap[id].vel =
                    BoundaryRestitution([heap[id] EXCEPT !.vel = DisplacementVelocity(id)],
                                        world).vel

\* a free particle was corrected after the integration and left the update
\* with the velocity of its displacement, which is not the integrated one
VelocityReconciledWitness ==
    /\ Updated
    /\ hist.dt.num > 0
    /\ \E id \in WorldIds :
          /\ ~heap[id].fixed
          /\ heap[id].vel = DisplacementVelocity(id)
          /\ heap[id].vel # IntegratedVelocity(id)
          /\ heap[id].vel # VZero

-----------------------------------------------------------------------------
(* The integrator, stated for SpecRest: one free particle in flight.        *)

\* vel + ((gravity * mass - vel * friction) / mass) * dt
EulerVelocity(p, w, dt) ==
    VAdd(p.vel,
         TimesDt(Vec2(Div(w.gravity.x * p.mass - Div(p.vel.x * w.friction, One), p.mass),
                      Div(w.gravity.y * p.mass - Div(p.vel.y * w.friction, One), p.mass)),
                 dt))

\* pos + vel' * dt
EulerPosition(p, w, dt) == VAdd(p.pos, TimesDt(EulerVelocity(p, w, dt), dt))

\* the particle is inside the walls before the step and the integrator
\* leaves it strictly inside them: no boundary contact
InFlight(p, w, dt) ==
    /\ ~p.fixed
    /\ ~OutOfBounds(p)
    /\ EulerPosition(p, w, dt).x > p.radius
    /\ EulerPosition(p, w, dt).x < w.width - p.radius
    /\ EulerPosition(p, w, dt).y > p.radius
    /\ EulerPosition(p, w, dt).y < w.height - p.radius

\* C18: the integrator is semi-implicit Euler: for a non-fixed particle
\* with no constraint, collision or boundary contact, one update(dt) sets
\* vel' = vel + ((gravity * mass - vel * friction) / mass) * dt and then
\* pos' = pos + vel' * dt, the position advance using the updated velocity.
\* The velocity the update leaves is the one of that displacement, which is
\* vel' to within the velocity of one length unit per step.
SemiImplicitEuler ==
    (Updated /\ hist.dt.num > 0 /\ InFlight(hist.heap[1], world, hist.dt)) =>
        /\ heap[1].pos = EulerPosition(hist.heap[1], world, hist.dt)
        /\ Abs(heap[1].vel.x - EulerVelocity(hist.heap[1], world, hist.dt).x) * hist.dt.num
              < hist.dt.den
        /\ Abs(heap[1].vel.y - EulerVelocity(hist.heap[1], world, hist.dt).y) * hist.dt.num
              < hist.dt.den

\* a particle already moving, so that drag acts on it, flew under gravity
\* without touching a wall
SemiImplicitEulerWitness ==
    /\ Updated
    /\ InFlight(hist.heap[1], world, hist.dt)
    /\ hist.heap[1].vel # VZero
    /\ world.gravity # VZero
    /\ heap[1].pos # hist.heap[1].pos
    /\ heap[1].pos = EulerPosition(hist.heap[1], world, hist.dt)
    /\ heap[1].pos # VAdd(hist.heap[1].pos, TimesDt(hist.heap[1].vel, hist.dt))


-----------------------------------------------------------------------------
(* The relaxation loop of World.update: worlds whose constraint_iterations *)
(* is 0, 1, 2 or 3, holding Springs, other constraints and groups at once.  *)

MaxLoopSteps == 2

ConstraintIterations == {0, 1, 2, 3}

LoopWorlds ==
    {WorldParams(40 * Scale, 30 * Scale, g, One \div 10, One \div 2, n) :
        g \in Gravities, n \in ConstraintIterations}

\* a Spring, a DistanceConstraint and a rigid body added to a scene
WithExtras(ws, extra) ==
    IF extra
    THEN CreateGroup(
             AddConstraint(
                 AddConstraint(ws, Spring(2, 3, 8 * Scale, 15, DefaultDamping(15))),
                 DistanceConstraint(1, 3, 12 * Scale, One)),
             <<[int |-> FALSE, v |-> 1], [int |-> FALSE, v |-> 2]>>, One, FALSE)
    ELSE ws

LoopScenes ==
    {WithExtras(Scene(Particle(x1, VZero, 10 * Scale, 1, FALSE),
                      Particle(V(28, 15), VZero, 10 * Scale, 1, FALSE), TRUE, link),
                extra) : x1 \in Pos1, link \in Links, extra \in BOOLEAN}
    \cup {EmptyWorld}

InitLoop == \E ws \in LoopScenes, w \in LoopWorlds : InitWith(ws, w)

StepLoop(dt) == hist.updates < MaxLoopSteps /\ Step(dt)

NextLoop == \E dt \in Dts : StepLoop(dt)

SpecLoop == InitLoop /\ [][NextLoop]_vars

\* the update went past the early return of an empty world
Ran == Updated /\ Len(hist.particles) > 0

UpdatesIn(pass, k) ==
    Cardinality({i \in 1..Len(pass) : pass[i].call = "update" /\ pass[i].on = k})

SolvesIn(pass, k) ==
    Cardinality({i \in 1..Len(pass) : pass[i].call = "solve" /\ pass[i].on = k})

\* every constraint that is not a Spring is updated once, no Spring is, and
\* then every group is solved once
PassAsSpecified(pass) ==
    /\ \A k \in 1..Len(hist.constraints) :
          UpdatesIn(pass, k) = IF hist.constraints[k].kind # "Spring" THEN 1 ELSE 0
    /\ \A k \in 1..Len(hist.groups) : SolvesIn(pass, k) = 1
    /\ \A i, j \in 1..Len(pass) :
          pass[i].call = "update" /\ pass[j].call = "solve" => i < j
    /\ \A i \in 1..Len(pass) :
          \/ pass[i].call = "update" /\ pass[i].on \in 1..Len(hist.constraints)
          \/ pass[i].call = "solve" /\ pass[i].on \in 1..Len(hist.groups)

\* C19 as stated: every update makes exactly constraint_iterations passes of
\* the relaxation loop, each pass updating every non-Spring constraint once
\* and then solving every group once.
ConfiguredPasses ==
    Updated => /\ Len(calls) = world.constraint_iterations
               /\ \A n \in 1..Len(calls) : PassAsSpecified(calls[n])

\* C19: an update of a world that has particles makes
\* max(1, constraint_iterations) passes of the relaxation loop, each pass
\* updating every non-Spring constraint once and then solving every group once.
RelaxationPasses ==
    Ran => /\ Len(calls) = Max(1, world.constraint_iterations)
           /\ \A n \in 1..Len(calls) : PassAsSpecified(calls[n])

RelaxationPassesWitness ==
    /\ Ran
    /\ world.constraint_iterations = 3
    /\ Len(calls) = 3
    /\ Len(hist.groups) > 0
    /\ \E k \in 1..Len(hist.constraints) : hist.constraints[k].kind = "Spring"
    /\ \E k \in 1..Len(hist.constraints) : hist.constraints[k].kind # "Spring"
    /\ Len(calls[3]) = Len(hist.groups) + Len(hist.constraints) - 1


-----------------------------------------------------------------------------
(* World._rebuild_verlet_list called on worlds of several cell sizes, with  *)
(* particles of several radii standing in the same cell, in adjacent cells  *)
(* and further apart.                                                      *)

MaxGridOps == 2

CellSizes == {8 * Scale, 20 * Scale, 60 * Scale}
GridRadii == {4 * Scale, 10 * Scale, 30 * Scale}
GridSpots == {V(55, 50), V(62, 50), V(75, 50), V(130, 50), V(62, 110)}
GridTargets == {V(50, 50), V(95, 50)}

\* World(200, 150, cell_size=c)
GridWorlds ==
    {[WorldParams(200 * Scale, 150 * Scale, VZero, One \div 10, One \div 2, 2)
        EXCEPT !.cell_size = c, !.verlet_skin = DefaultVerletSkin(c)] :
        c \in CellSizes}

InitGrid ==
    \E r \in GridRadii, x2 \in GridSpots, x3 \in GridSpots, w \in GridWorlds :
        InitWith(Scene(Particle(V(50, 50), VZero, r, 1, FALSE),
                       Particle(x2, VZero, 4 * Scale, 1, FALSE), FALSE, "none"),
                 w)
        \/ InitWith(AddParticle(NewParticle(
                        Scene(Particle(V(50, 50), VZero, r, 1, FALSE),
                              Particle(x2, VZero, 4 * Scale, 1, FALSE), FALSE, "none"),
                        Particle(x3, VZero, 4 * Scale, 1, FALSE)), 3),
                    w)

\* world._rebuild_verlet_list()
Rebuild ==
    /\ hist.updates < MaxGridOps
    /\ IF Len(particles) = 0
       THEN /\ verlet_list' = [present |-> TRUE, neigh |-> <<>>]
            /\ verlet_last_n' = 0
            /\ UNCHANGED verlet_frame_counter
       ELSE /\ verlet_list' = RebuildVerletList(heap, particles, world)
            /\ verlet_last_n' = Len(particles)
            /\ verlet_frame_counter' = 0
    /\ hist' = History("rebuild", WS, NoObj, VZero, NoDt, 1, 0, hist.updates + 1,
                       hist.members)
    /\ Returns
    /\ UNCHANGED <<heap, particles, constraints, groups, group_map, next_group_id,
                   world>>

\* the mouse drags a particle of the world
DragGrid(id, pos) ==
    /\ hist.updates < MaxGridOps
    /\ InWorld(particles, id)
    /\ SetWS(MouseMotion(WS, id, pos))
    /\ hist' = History("drag", WS, id, pos, NoDt, 0, hist.stale, hist.updates + 1,
                       hist.members)
    /\ Returns
    /\ UNCHANGED <<verlet_list, verlet_frame_counter, verlet_last_n, world>>

NextGrid ==
    \/ Rebuild
    \/ \E id \in DOMAIN heap, pos \in GridTargets : DragGrid(id, pos)

SpecGrid == InitGrid /\ [][NextGrid]_vars

Cutoff == 2 * MaxRadius(heap, particles) + world.verlet_skin

\* the centres of the particles at indices i and j are within the cutoff
WithinCutoff(i, j) ==
    LET dxp == heap[At(particles, j)].pos.x - heap[At(particles, i)].pos.x
        dyp == heap[At(particles, j)].pos.y - heap[At(particles, i)].pos.y
    IN  dxp * dxp + dyp * dyp <= Cutoff * Cutoff

\* how often index j stands in the neighbour list of index i
TimesListed(i, j) ==
    Cardinality({m \in 1..Len(At(verlet_list.neigh, i)) :
                    At(verlet_list.neigh, i)[m] = j})

\* C20 as stated: right after _rebuild_verlet_list, j stands in i's list and
\* i in j's exactly when their centres are within 2*max radius + verlet_skin,
\* and no pair is listed twice, whatever the cell size and the radii.
VerletListExact ==
    hist.op = "rebuild" =>
        \A i, j \in 0..(Len(particles) - 1) :
            i # j => /\ TimesListed(i, j) <= 1
                     /\ TimesListed(i, j) = TimesListed(j, i)
                     /\ TimesListed(i, j) = 1 <=> WithinCutoff(i, j)


-----------------------------------------------------------------------------
(* The size of the correction of resolve_particle_collision, stated for     *)
(* SpecCollide.                                                            *)

Penetration(a, b) == (a.radius + b.radius) - Length(VSub(b.pos, a.pos))

\* C21: when resolve_particle_collision is applied to a colliding pair as
\* World._handle_collisions calls it, neither particle is displaced by more
\* than max_correction, and neither is displaced at all when the penetration
\* is at most the slop.
CorrectionClamped ==
    (Resolved /\ Detect(hist.heap[1], hist.heap[2])) =>
        \A id \in {1, 2} :
            /\ Moved(id).x * Moved(id).x + Moved(id).y * Moved(id).y
                  <= MaxCorrection * MaxCorrection
            /\ Penetration(hist.heap[1], hist.heap[2]) <= CollisionSlop
                  => Moved(id) = VZero

\* a deep overlap, whose unclamped correction exceeds max_correction, was
\* resolved and a particle moved by max_correction exactly
CorrectionClampedWitness ==
    /\ Resolved
    /\ Detect(hist.heap[1], hist.heap[2])
    /\ CorrectionUnclamped(Penetration(hist.heap[1], hist.heap[2]), CollisionPercent,
                           CollisionSlop, MaxCorrection) > MaxCorrection
    /\ \E id \in {1, 2} : Length(Moved(id)) = MaxCorrection


\* rv . delta for the pair before the call: negative when the particles
\* approach each other, positive when they separate
Closing ==
    LET delta == VSub(hist.heap[2].pos, hist.heap[1].pos)
        rv == VSub(hist.heap[2].vel, hist.heap[1].vel)
    IN  rv.x * delta.x + rv.y * delta.y

-----------------------------------------------------------------------------
(* SpecBounce: one particle close to a wall or a corner of a 40 x 30 world, *)
(* moving towards it or away from it, in worlds of several restitutions.    *)

MaxBounceSteps == 2

BounceSpots == {Vec2(10 * Scale + 20, 15 * Scale), Vec2(30 * Scale - 20, 15 * Scale),
                Vec2(20 * Scale, 20 * Scale - 20), Vec2(10 * Scale + 20, 10 * Scale + 20),
                V(20, 15), V(10, 15)}
BounceVelocities == {VZero, V(-30, 0), V(30, 0), V(0, 30), V(-30, -30)}
Restitutions == {0, One \div 2, One}

InitBounce ==
    \E pos \in BounceSpots, vel \in BounceVelocities, bounce \in Restitutions,
       g \in Gravities, fixed \in BOOLEAN :
        InitWith(AddParticle(NewParticle(EmptyWorld,
                     Particle(pos, vel, 10 * Scale, 1, fixed)), 1),
                 WorldParams(40 * Scale, 30 * Scale, g, One \div 10, bounce, 2))

\* world.update(dt)
StepBounce(dt) == hist.updates < MaxBounceSteps /\ Step(dt)

NextBounce == \E dt \in Dts : StepBounce(dt)

SpecBounce == InitBounce /\ [][NextBounce]_vars

\* the component v of the reconciled velocity points out of the world at a
\* wall of the axis: the particle, at x with radius r, is at or beyond it
Outward(x, r, size, v) == (x <= r /\ v < 0) \/ (x >= size - r /\ v > 0)

\* the final component is the reconciled one times -restitution, to within
\* the rounding of the product, when that one points outward, and the
\* reconciled one itself otherwise
BouncedOnce(x, r, size, reconciled, final) ==
    IF Outward(x, r, size, reconciled)
    THEN Abs(final * One + reconciled * world.restitution) < One
    ELSE final = reconciled

\* C23: after update(dt), each velocity component of a non-fixed particle
\* is the reconciled component multiplied once by -restitution when the
\* particle is at or beyond a wall and that component points out of the
\* world, and is the reconciled component otherwise.
RestitutionOnce ==
    (Updated /\ hist.dt.num > 0) =>
        \A id \in WorldIds :
            ~heap[id].fixed =>
                /\ BouncedOnce(heap[id].pos.x, heap[id].radius, world.width,
                               DisplacementVelocity(id).x, heap[id].vel.x)
                /\ BouncedOnce(heap[id].pos.y, heap[id].radius, world.height,
                               DisplacementVelocity(id).y, heap[id].vel.y)

\* a particle ran into the left wall: its x component was reversed and
\* halved while its y component, pointing along the wall, was kept
RestitutionOnceWitness ==
    /\ Updated
    /\ world.restitution = One \div 2
    /\ \E id \in WorldIds :
          /\ ~heap[id].fixed
          /\ heap[id].pos.x = heap[id].radius
          /\ DisplacementVelocity(id).x < -1
          /\ heap[id].vel.x > 0
          /\ heap[id].vel.x < -DisplacementVelocity(id).x
          /\ ~Outward(heap[id].pos.y, heap[id].radius, world.height,
                      DisplacementVelocity(id).y)
          /\ heap[id].vel.y = DisplacementVelocity(id).y
          /\ heap[id].vel.y # 0


-----------------------------------------------------------------------------
(* SpecDistance: DistanceConstraint.update on two particles of several      *)
(* masses, free or fixed, too far apart or too close, for several           *)
(* stiffnesses.  The second particle lies on a horizontal or vertical line  *)
(* through the first, so that the components of the unit vector are exact.  *)

InitDistance ==
    \E sep \in Separations, m1 \in Masses, m2 \in Masses, f1 \in BOOLEAN,
       f2 \in BOOLEAN, rest \in Rests, k \in Stiffnesses :
        InitWith(AddConstraint(
                     AddParticle(NewParticle(AddParticle(NewParticle(EmptyWorld,
                         Particle(V(20, 15), VZero, 1 * Scale, m1, f1)), 1),
                         Particle(VAdd(V(20, 15), sep), VZero, 1 * Scale, m2, f2)), 2),
                     DistanceConstraint(1, 2, rest, k)),
                 WorldParams(40 * Scale, 30 * Scale, VZero, One \div 10, One \div 2, 2))

NextDistance == RelaxDistance

SpecDistance == InitDistance /\ [][NextDistance]_vars

\* C24: DistanceConstraint.update displaces its endpoints along the line
\* joining them, in opposite directions, by amounts in the ratio of their
\* inverse masses (m1*dp1 + m2*dp2 = 0 for two free particles, to within the
\* rounding of the two displacements); a fixed endpoint is not displaced, and
\* nothing changes when both endpoints are fixed.
DistanceMassWeighted ==
    hist.op = "relax" =>
        LET a == hist.heap[1]
            b == hist.heap[2]
            line == VSub(b.pos, a.pos)
            d1 == Moved(1)
            d2 == Moved(2)
        IN  /\ Cross(d1, line) = 0 /\ Cross(d2, line) = 0
            /\ Sign(d1.x * line.x + d1.y * line.y)
                  * Sign(d2.x * line.x + d2.y * line.y) <= 0
            /\ a.fixed => d1 = VZero
            /\ b.fixed => d2 = VZero
            /\ (a.fixed /\ b.fixed) => heap = hist.heap
            /\ (~a.fixed /\ ~b.fixed) =>
                  /\ Abs(a.mass * d1.x + b.mass * d2.x) < Max(a.mass, b.mass)
                  /\ Abs(a.mass * d1.y + b.mass * d2.y) < Max(a.mass, b.mass)

\* two free particles of unequal masses were moved, the lighter one further,
\* in opposite directions
DistanceMassWeightedWitness ==
    /\ hist.op = "relax"
    /\ ~hist.heap[1].fixed /\ ~hist.heap[2].fixed
    /\ hist.heap[1].mass < hist.heap[2].mass
    /\ Length(Moved(1)) > Length(Moved(2))
    /\ Length(Moved(2)) > 0
    /\ Moved(1).x * Moved(2).x + Moved(1).y * Moved(2).y < 0


-----------------------------------------------------------------------------
(* SpecForce: worlds holding Springs next to other constraints and groups,  *)
(* some with a Spring one of whose endpoints was never added to the world.  *)

MaxForceSteps == 2

\* a Spring from the first particle to a particle that is not in the world
WithStray(ws, stray) ==
    IF stray
    THEN AddConstraint(NewParticle(ws, Particle(V(20, 22), VZero, 4 * Scale, 1, FALSE)),
                       Spring(1, Len(ws.heap) + 1, 4 * Scale, 15, DefaultDamping(15)))
    ELSE ws

InitForce ==
    \E ws \in LoopScenes \ {EmptyWorld}, stray \in BOOLEAN, g \in Gravities :
        InitWith(WithStray(ws, stray),
                 WorldParams(40 * Scale, 30 * Scale, g, One \div 10, One \div 2, 2))

StepForce(dt) == hist.updates < MaxForceSteps /\ Step(dt)

NextForce == \E dt \in Dts : StepForce(dt)

SpecForce == InitForce /\ [][NextForce]_vars

NonSprings(cs) == SelectSeq(cs, LAMBDA c : c.kind # "Spring")

\* the constraints but for the Springs with an endpoint outside the world
WithoutStrays(plist, cs) ==
    SelectSeq(cs, LAMBDA c : c.kind = "Spring" =>
                                 InWorld(plist, c.p1) /\ InWorld(plist, c.p2))

\* C25: in World.update the relaxation loop calls no Spring's update, and
\* the Springs act through the forces of the integration phase only: the
\* update ends as it would if the Springs with an endpoint outside
\* world.particles were absent during the integration and all Springs were
\* absent after it.
SpringsActByForce ==
    [][(hist'.op = "update" /\ Len(particles) > 0) =>
          /\ \A n \in 1..Len(calls') : \A k \in 1..Len(calls'[n]) :
                calls'[n][k].kind # "Spring"
          /\ heap' = FinishUpdate(heap,
                                  Integrate(heap, particles,
                                            WithoutStrays(particles, constraints),
                                            world, hist'.dt),
                                  particles, NonSprings(constraints), groups,
                                  verlet_list, verlet_frame_counter, verlet_last_n,
                                  world, hist'.dt).heap]_vars

\* an update of a world with a stretched Spring between two free particles
\* of the world, a Spring to a particle outside it and another constraint:
\* the first Spring pulled its endpoints
SpringsActByForceWitness ==
    /\ Ran
    /\ \E k \in 1..Len(hist.constraints) : hist.constraints[k].kind = "Distance"
    /\ \E k \in 1..Len(hist.constraints) :
          /\ hist.constraints[k].kind = "Spring"
          /\ ~InWorld(particles, hist.constraints[k].p2)
    /\ \E k \in 1..Len(hist.constraints) :
          /\ hist.constraints[k].kind = "Spring"
          /\ InWorld(particles, hist.constraints[k].p1)
          /\ InWorld(particles, hist.constraints[k].p2)
          /\ ~hist.heap[hist.constraints[k].p1].fixed
          /\ SpringForce(hist.heap, hist.constraints[k]) # VZero
          /\ SpringSum(hist.heap, hist.particles, hist.constraints,
                       hist.constraints[k].p1) # VZero
    /\ heap # hist.heap


-----------------------------------------------------------------------------
(* SpecCoincide: a DistanceConstraint or a Spring whose endpoints are on    *)
(* the same spot, a hundredth apart, or well apart; the constraint's update *)
(* or compute_force is called.                                             *)

Gaps == {VZero, Vec2(1, 0), V(4, 0), V(0, -6)}

InitCoincide ==
    \E gap \in Gaps, m1 \in Masses, m2 \in Masses, f1 \in BOOLEAN, f2 \in BOOLEAN,
       v1 \in Approaches :
        \E c \in {DistanceConstraint(1, 2, 8 * Scale, One),
                  Spring(1, 2, 8 * Scale, 15, DefaultDamping(15))} :
            InitWith(AddConstraint(
                         AddParticle(NewParticle(AddParticle(NewParticle(EmptyWorld,
                             Particle(V(20, 15), v1, 1 * Scale, m1, f1)), 1),
                             Particle(VAdd(V(20, 15), gap), VZero, 1 * Scale, m2, f2)), 2),
                         c),
                     WorldParams(40 * Scale, 30 * Scale, VZero, One \div 10, One \div 2, 2))

\* c.compute_force(c.p1.pos, c.p2.pos, c.p1.vel, c.p2.vel); hist.pos is the
\* vector returned
ComputeForce ==
    /\ hist.updates < MaxPasses
    /\ constraints[1].kind = "Spring"
    /\ hist' = History("force", WS, NoObj, SpringForce(heap, constraints[1]), NoDt,
                       0, 0, hist.updates + 1, hist.members)
    /\ Returns
    /\ UNCHANGED <<heap, particles, constraints, groups, group_map, next_group_id,
                   verlet_list, verlet_frame_counter, verlet_last_n, world>>

NextCoincide == RelaxDistance \/ ComputeForce

SpecCoincide == InitCoincide /\ [][NextCoincide]_vars

\* the endpoints of the constraint were on the same spot before the call
Coincident ==
    hist.heap[constraints[1].p1].pos = hist.heap[constraints[1].p2].pos

\* C26: with coincident endpoints DistanceConstraint.update changes no
\* position and Spring.compute_force returns the zero vector, and neither
\* call raises.
CoincidentIsNoOp ==
    /\ (hist.op = "relax" /\ Coincident) => heap = hist.heap /\ ~raised
    /\ (hist.op = "force" /\ Coincident) => hist.pos = VZero /\ ~raised

\* the update of a Distance constraint whose free endpoints coincide, far
\* from their rest distance, has been called
CoincidentIsNoOpWitness ==
    /\ hist.op = "relax"
    /\ Coincident
    /\ ~hist.heap[1].fixed /\ ~hist.heap[2].fixed
    /\ constraints[1].rest > 0
    /\ heap[1].pos = heap[2].pos


-----------------------------------------------------------------------------
(* SpecDamping: Springs constructed with and without a damping argument     *)
(* between particles of several masses, then asked for their force.         *)

MaxSprings == 1

\* damping=None
NoDamping == -1

\* Spring(p1, p2, length, stiffness, damping=None)
SpringInit(p1, p2, length, stiffness, damping) ==
    Spring(p1, p2, length, stiffness,
           IF damping = NoDamping THEN DefaultDamping(stiffness) ELSE damping)

SpringStiffnessChoices == {15, 100}
DampingChoices == {NoDamping, 0, (5 * One) \div 2}

InitDamping ==
    \E m1 \in Masses, m2 \in Masses, v1 \in Approaches, gap \in {V(4, 0), V(12, 0)} :
        InitWith(AddParticle(NewParticle(AddParticle(NewParticle(EmptyWorld,
                     Particle(V(20, 15), v1, 1 * Scale, m1, FALSE)), 1),
                     Particle(VAdd(V(20, 15), gap), VZero, 1 * Scale, m2, FALSE)), 2),
                 WorldParams(40 * Scale, 30 * Scale, VZero, One \div 10, One \div 2, 2))

\* world.add_constraint(Spring(p1, p2, length, stiffness[, damping])), the new
\* Spring put first; hist.arg is the damping argument
NewSpring(stiffness, damping) ==
    /\ Len(constraints) < MaxSprings
    /\ constraints' = <<SpringInit(1, 2, 8 * Scale, stiffness, damping)>> \o constraints
    /\ hist' = History("spring", WS, damping, VZero, NoDt, 0, 0, hist.updates,
                       hist.members)
    /\ Returns
    /\ UNCHANGED <<heap, particles, groups, group_map, next_group_id,
                   verlet_list, verlet_frame_counter, verlet_last_n, world>>

\* compute_force of the newest Spring
ForceOfSpring == Len(constraints) > 0 /\ ComputeForce

NextDamping ==
    \/ \E k \in SpringStiffnessChoices, d \in DampingChoices : NewSpring(k, d)
    \/ ForceOfSpring

SpecDamping == InitDamping /\ [][NextDamping]_vars

\* 2 * sqrt(stiffness * (m1 + m2) / 2), counting 1/One
CriticalDamping(stiffness, m1, m2) == ISqrt(2 * stiffness * (m1 + m2) * One * One)

\* C27 as stated: a Spring constructed without a damping value has damping
\* 2*sqrt(stiffness * average mass of its endpoints), to within the rounding
\* of the square root, whatever the masses; a damping value given to the
\* constructor is kept as it is.
DefaultDampingIsCritical ==
    hist.op = "spring" =>
        LET c == constraints[1]
        IN  IF hist.arg = NoDamping
            THEN Abs(c.damping - CriticalDamping(c.stiffness, heap[c.p1].mass,
                                                 heap[c.p2].mass)) <= 2
            ELSE c.damping = hist.arg


-----------------------------------------------------------------------------
(* SpecSheet: World.create_cloth called, for several numbers of segments    *)
(* and several sizes, on an empty world and on a world that holds two       *)
(* particles already.                                                      *)

MaxSheets == 1

SegmentsX == {1, 2, 3}
SegmentsY == {1, 2}
SheetSizes == {V(6, 8), V(12, 6)}

InitSheet ==
    \E ws \in {EmptyWorld,
               Scene(Particle(V(5, 5), VZero, 4 * Scale, 1, FALSE),
                     Particle(V(35, 25), VZero, 4 * Scale, 1, FALSE), FALSE, "none")},
       n \in {1, 2} :
        InitWith(ws, WorldParams(40 * Scale, 30 * Scale, VZero, One \div 10, One \div 2, n))

\* world.create_cloth(top_left_pos, width, height, segments_x, segments_y,
\* tear_factor, pin_corners, stiffness); hist.pos holds the segment counts
MakeSheet(size, segments_x, segments_y, tear, pins, stiffness) ==
    /\ Len(groups) < MaxSheets
    /\ SetWS(CreateCloth(WS, V(10, 8), size.x, size.y, segments_x, segments_y, tear,
                         pins, stiffness, world.constraint_iterations))
    /\ hist' = History("cloth", WS, NoObj, Vec2(segments_x, segments_y), NoDt, 0,
                       hist.stale, hist.updates + 1, hist.members)
    /\ Returns
    /\ UNCHANGED <<verlet_list, verlet_frame_counter, verlet_last_n, world>>

NextSheet ==
    \E size \in SheetSizes, sx \in SegmentsX, sy \in SegmentsY, pins \in PinChoices :
        MakeSheet(size, sx, sy, 3 * One, pins, One \div 2)

SpecSheet == InitSheet /\ [][NextSheet]_vars

\* the cloth made by the last call, and the object at place k (0-based) of
\* its grid, rows first
Sheet == groups[Len(groups)]
SheetParticle(k) == At(particles, At(Sheet.indices, k))

\* places a and b of a grid of the given width are next to each other in a
\* row, in a column or on a diagonal
Adjacent(a, b, width) ==
    /\ a # b
    /\ Abs((a % width) - (b % width)) <= 1
    /\ Abs((a \div width) - (b \div width)) <= 1

\* the number of the cloth's constraints between the objects p and q
LinksBetween(p, q) ==
    Cardinality({k \in 1..Len(Sheet.constraints) :
                    {Sheet.constraints[k].p1, Sheet.constraints[k].p2} = {p, q}})

\* C28: create_cloth(segments_x, segments_y) appends
\* (segments_x+1)*(segments_y+1) particles at consecutive indices, and the
\* cloth holds exactly one Distance constraint for each pair of grid
\* particles adjacent in a row, a column or a diagonal, none for any other
\* pair, each with the pair's initial separation as its rest distance.
ClothGrid ==
    hist.op = "cloth" =>
        LET width == hist.pos.x + 1
            count == (hist.pos.x + 1) * (hist.pos.y + 1)
        IN  /\ Len(particles) = Len(hist.particles) + count
            /\ SubSeq(particles, 1, Len(hist.particles)) = hist.particles
            /\ Len(Sheet.indices) = count
            /\ \A k \in 0..(count - 1) : At(Sheet.indices, k) = Len(hist.particles) + k
            /\ \A a, b \in 0..(count - 1) :
                  a < b => LinksBetween(SheetParticle(a), SheetParticle(b))
                              = IF Adjacent(a, b, width) THEN 1 ELSE 0
            /\ \A k \in 1..Len(Sheet.constraints) :
                  LET c == Sheet.constraints[k]
                  IN  /\ c.kind = "Distance"
                      /\ c.p1 # c.p2
                      /\ \E a, b \in 0..(count - 1) :
                            c.p1 = SheetParticle(a) /\ c.p2 = SheetParticle(b)
                      /\ c.rest = Length(VSub(heap[c.p1].pos, heap[c.p2].pos))
            /\ constraints = hist.constraints

\* a cloth of 4 x 3 particles was added to a world that held particles: the
\* last particle of a row and the first one of the next row are not linked
ClothGridWitness ==
    /\ hist.op = "cloth"
    /\ hist.pos = Vec2(3, 2)
    /\ Len(hist.particles) > 0
    /\ Len(Sheet.constraints) = 3 * 3 + 4 * 2 + 2 * 3 * 2
    /\ LinksBetween(SheetParticle(3), SheetParticle(4)) = 0
    /\ LinksBetween(SheetParticle(3), SheetParticle(6)) = 1


-----------------------------------------------------------------------------
(* SpecRoster: groups and cloths created and removed in a world of three    *)
(* particles, and the ids create_group returned used afterwards.  Every     *)
(* group is created with a stiffness of its own, by which it is told apart; *)
(* hist.members lists, for each id create_group returned, the stiffness of  *)
(* the group made and whether remove_group has been called with the id.     *)

MaxRosterOps == 3

Trio ==
    AddParticle(NewParticle(
        Scene(Particle(V(10, 10), VZero, 2 * Scale, 1, FALSE),
              Particle(V(20, 10), VZero, 2 * Scale, 1, FALSE), FALSE, "none"),
        Particle(V(15, 20), VZero, 2 * Scale, 1, FALSE)), 3)

RosterStiffnesses == {One, One \div 2, One \div 4}
ClothStiffness == (3 * One) \div 4

InitRoster ==
    InitWith(Trio, WorldParams(40 * Scale, 30 * Scale, VZero, One \div 10, One \div 2, 2))

\* World.set_group_fixed(group_id, fixed): groups[idx] raises IndexError when
\* the index the map gives is past the end of the list
SetGroupFixed(ws, gid, fixed) ==
    LET idx == GroupIndex(ws.group_map, gid)
    IN  IF idx < 0 THEN [ws |-> ws, raised |-> FALSE]
        ELSE IF ~InRange(ws.groups, idx) THEN [ws |-> ws, raised |-> TRUE]
        ELSE [ws |-> [ws EXCEPT
                        !.groups[idx + 1].fixed = fixed,
                        !.heap = AsSeq([id \in DOMAIN ws.heap |->
                            IF \E m \in 1..Len(ws.groups[idx + 1].indices) :
                                  /\ InRange(ws.particles, ws.groups[idx + 1].indices[m])
                                  /\ At(ws.particles, ws.groups[idx + 1].indices[m]) = id
                            THEN [ws.heap[id] EXCEPT !.fixed = fixed]
                            ELSE ws.heap[id]])],
              raised |-> FALSE]

\* World.add_particle_to_group(group_id, particle)
AddParticleToGroup(ws, gid, id) ==
    LET idx == GroupIndex(ws.group_map, gid)
        pi == IndexOf(ws.heap, ws.particles, id, 1)
    IN  IF idx < 0 THEN [ws |-> ws, raised |-> FALSE]
        ELSE IF ~InRange(ws.groups, idx) THEN [ws |-> ws, raised |-> TRUE]
        ELSE IF pi < 0 \/ \E m \in 1..Len(ws.groups[idx + 1].indices) :
                             ws.groups[idx + 1].indices[m] = pi
        THEN [ws |-> ws, raised |-> FALSE]
        ELSE [ws |-> [ws EXCEPT !.groups[idx + 1].indices = Append(@, pi),
                                !.groups[idx + 1].rest_rel = Append(@, VZero)],
              raised |-> FALSE]

RosterOp(op, r, gid, members) ==
    /\ hist.updates < MaxRosterOps
    /\ SetWS(r.ws)
    /\ raised' = r.raised
    /\ calls' = <<>>
    /\ hist' = History(op, WS, gid, VZero, NoDt, 0, hist.stale, hist.updates + 1,
                       members)
    /\ UNCHANGED <<verlet_list, verlet_frame_counter, verlet_last_n, world, disk,
                   shared, gui, main>>

\* gid = world.create_group([a, b], stiffness=k), k not used before
NewGroup(a, b, k) ==
    /\ \A m \in 1..Len(hist.members) : hist.members[m].stiffness # k
    /\ RosterOp("group",
                [ws |-> CreateGroup(WS, <<[int |-> FALSE, v |-> a],
                                          [int |-> FALSE, v |-> b]>>, k, FALSE),
                 raised |-> FALSE],
                next_group_id,
                Append(hist.members,
                       [gid |-> next_group_id, stiffness |-> k, removed |-> FALSE]))

\* world.create_cloth(top_left, 6, 8, 1, 1), once
NewCloth ==
    /\ \A k \in 1..Len(groups) : groups[k].kind # "Cloth"
    /\ RosterOp("cloth",
                [ws |-> CreateCloth(WS, V(25, 8), 6 * Scale, 8 * Scale, 1, 1, 3 * One, {},
                                    ClothStiffness, world.constraint_iterations),
                 raised |-> FALSE],
                NoObj, hist.members)

\* world.remove_group(gid)
Disband(gid) ==
    RosterOp("remove_group", [ws |-> RemoveGroup(WS, gid), raised |-> FALSE], gid,
             AsSeq([m \in 1..Len(hist.members) |->
                     IF hist.members[m].gid = gid
                     THEN [hist.members[m] EXCEPT !.removed = TRUE]
                     ELSE hist.members[m]]))

\* world.set_group_fixed(gid, True)
FixGroup(gid) == RosterOp("set_group_fixed", SetGroupFixed(WS, gid, TRUE), gid, hist.members)

\* world.add_particle_to_group(gid, p)
JoinGroup(gid, id) ==
    RosterOp("add_particle_to_group", AddParticleToGroup(WS, gid, id), gid, hist.members)

\* the ids create_group has returned
Returned == {hist.members[m].gid : m \in 1..Len(hist.members)}

NextRoster ==
    \/ \E pair \in {<<1, 2>>, <<2, 3>>}, k \in RosterStiffnesses : NewGroup(pair[1], pair[2], k)
    \/ NewCloth
    \/ \E gid \in Returned : Disband(gid)
    \/ \E gid \in Returned : FixGroup(gid)
    \/ \E gid \in Returned : JoinGroup(gid, 3)

SpecRoster == InitRoster /\ [][NextRoster]_vars

\* whether remove_group has been called with gid
Removed(gid) ==
    \E m \in 1..Len(hist.members) : hist.members[m].gid = gid /\ hist.members[m].removed

\* C29 as stated: every id create_group returned and remove_group has not
\* been given designates, through the map, the group made for it; an id
\* remove_group has been given designates no group, and a later
\* remove_group, set_group_fixed or add_particle_to_group with it changes no
\* group and raises nothing.
GroupIdsResolve ==
    /\ \A m \in 1..Len(hist.members) :
          LET idx == GroupIndex(group_map, hist.members[m].gid)
          IN  IF hist.members[m].removed
              THEN idx < 0
              ELSE /\ InRange(groups, idx)
                   /\ groups[idx + 1].stiffness = hist.members[m].stiffness
    /\ (hist.op \in {"set_group_fixed", "add_particle_to_group"} /\ Removed(hist.arg))
          => groups = hist.groups /\ heap = hist.heap
    /\ ~raised


-----------------------------------------------------------------------------
(* SpecPanel: the tuning panel (run_gui, in its own process) and the main   *)
(* loop (main) over the shared dictionary, with one Spring in the world.    *)
(* Every access to the dictionary is one step; what a process does with its *)
(* own locals and widgets between two accesses belongs to the step of the   *)
(* access before it.  The rest of a frame of the main loop (event handling  *)
(* other than the click that selects the Spring, world.update, drawing)     *)
(* reads and writes neither the dictionary nor the Spring's parameters and  *)
(* is the return of main.pc to "events".                                    *)

MaxEntries == 1

Fields == {"length", "stiffness", "damping"}

\* the dictionary key of a parameter and the attribute of the Spring it names
KeyOf == [length |-> "spring_length", stiffness |-> "spring_stiffness", damping |-> "spring_damping"]
AttrOf == [length |-> "rest", stiffness |-> "stiffness", damping |-> "damping"]

\* what the user types into an input of the spring window
Entries == {12 * Scale, 40}

InitPanel ==
    InitWith(AddConstraint(
                 AddParticle(NewParticle(AddParticle(NewParticle(EmptyWorld,
                     Particle(V(10, 10), VZero, 2 * Scale, 1, FALSE)), 1),
                     Particle(V(20, 10), VZero, 2 * Scale, 1, FALSE)), 2),
                 Spring(1, 2, 10 * Scale, 25, DefaultDamping(25))),
             WorldParams(40 * Scale, 30 * Scale, VZero, One \div 10, One \div 2, 2))

\* the steps of this section leave the particles, the groups and the file alone
PanelFrame == UNCHANGED <<heap, particles, groups, group_map, next_group_id, verlet_list, verlet_frame_counter, verlet_last_n, world, disk, raised, calls, hist>>

\* main, MOUSEBUTTONDOWN on the Spring while nothing is selected: the record
\* of the selected constraint and the three seeds.  The seeds are the values
\* of the record, so the panel reads the same whichever it sees first.
Click ==
    /\ main.pc = "events"
    /\ shared.selected_constraint = NoSelection
    /\ Len(constraints) > 0
    /\ shared' = [selected_constraint |->
                      [type |-> constraints[1].kind, index |-> 0,
                       length |-> constraints[1].rest,
                       stiffness |-> constraints[1].stiffness,
                       damping |-> constraints[1].damping],
                  spring_length |-> constraints[1].rest,
                  spring_stiffness |-> constraints[1].stiffness,
                  spring_damping |-> constraints[1].damping]
    /\ UNCHANGED <<constraints, gui, main>>
    /\ PanelFrame

\* main: sc = _shared.get('selected_constraint'); without a selected Spring
\* at a valid index the frame goes on
PollSelected ==
    /\ main.pc = "events"
    /\ main' = IF /\ shared.selected_constraint # NoSelection
                  /\ InRange(constraints, shared.selected_constraint.index)
                  /\ At(constraints, shared.selected_constraint.index).kind
                         = shared.selected_constraint.type
                  /\ shared.selected_constraint.type = "Spring"
               THEN [pc |-> "length", sc |-> shared.selected_constraint]
               ELSE [pc |-> "events", sc |-> shared.selected_constraint]
    /\ UNCHANGED <<constraints, shared, gui>>
    /\ PanelFrame

\* _get_shared_float(key, fallback): _shared.get(key, fallback)
GetSharedFloat(f, fallback) ==
    IF shared[KeyOf[f]] = Absent THEN fallback ELSE shared[KeyOf[f]]

\* main: new_len = _get_shared_float('spring_length', ...); c.length = new_len
\* and the same for stiffness and damping
PollField(f, then) ==
    /\ main.pc = f
    /\ constraints' = [constraints EXCEPT
                         ![main.sc.index + 1][AttrOf[f]] = GetSharedFloat(f, main.sc[f])]
    /\ main' = [main EXCEPT !.pc = then]
    /\ UNCHANGED <<shared, gui>>
    /\ PanelFrame

\* main: sc[...] = the Spring's attributes; _shared['selected_constraint'] = sc
PollSync ==
    /\ main.pc = "sync"
    /\ shared' = [shared EXCEPT !.selected_constraint =
                     [main.sc EXCEPT !.length = At(constraints, main.sc.index).rest,
                                     !.stiffness = At(constraints, main.sc.index).stiffness,
                                     !.damping = At(constraints, main.sc.index).damping]]
    /\ main' = [main EXCEPT !.pc = "events"]
    /\ UNCHANGED <<constraints, gui>>
    /\ PanelFrame

\* run_gui: selected = shared.get('selected_constraint'); for a Spring the
\* three inputs are set from the record, otherwise the window is hidden and
\* the frame is rendered
RefreshSelected ==
    /\ gui.pc = "selected"
    /\ gui' = IF shared.selected_constraint # NoSelection
                 /\ shared.selected_constraint.type = "Spring"
              THEN [gui EXCEPT !.pc = "length",
                               !.selected = shared.selected_constraint,
                               !.input = [f \in Fields |-> shared.selected_constraint[f]]]
              ELSE [gui EXCEPT !.selected = shared.selected_constraint,
                               !.shown = FALSE]
    /\ UNCHANGED <<constraints, shared, main>>
    /\ PanelFrame

\* run_gui: shared['spring_length'] = length, and the same for stiffness and
\* damping; after the last one the window is shown and the frame rendered
RefreshField(f, then) ==
    /\ gui.pc = f
    /\ shared' = [shared EXCEPT ![KeyOf[f]] = gui.selected[f]]
    /\ gui' = [gui EXCEPT !.pc = then, !.shown = (then = "selected") \/ @]
    /\ UNCHANGED <<constraints, main>>
    /\ PanelFrame

\* the user types v into the input of f in the visible spring window:
\* spring_constraint_length_cb and its two siblings
Callback(f, v) ==
    /\ gui.shown
    /\ gui.entries < MaxEntries
    /\ gui.input[f] # v
    /\ shared' = [shared EXCEPT ![KeyOf[f]] = v]
    /\ gui' = [gui EXCEPT !.input[f] = v, !.entered[f] = v, !.entries = @ + 1]
    /\ UNCHANGED <<constraints, main>>
    /\ PanelFrame

Poll ==
    \/ PollSelected
    \/ PollField("length", "stiffness")
    \/ PollField("stiffness", "damping")
    \/ PollField("damping", "sync")
    \/ PollSync

Refresh ==
    \/ RefreshSelected
    \/ RefreshField("length", "stiffness")
    \/ RefreshField("stiffness", "damping")
    \/ RefreshField("damping", "selected")

NextPanel ==
    \/ Click
    \/ Poll
    \/ Refresh
    \/ \E f \in Fields, v \in Entries : Callback(f, v)

\* both loops keep running, and the click that selects the Spring comes
FairPanel == WF_vars(Click) /\ WF_vars(Poll) /\ WF_vars(Refresh)

SpecPanel == InitPanel /\ [][NextPanel]_vars /\ FairPanel

\* the value the user entered last for f stands under the key of f
Standing(f) == gui.entered[f] # Absent => shared[KeyOf[f]] = gui.entered[f]

\* the Spring's attribute of f is the value the user entered last for f
Applied(f) == gui.entered[f] # Absent /\ constraints[1][AttrOf[f]] = gui.entered[f]

\* C30 as stated: in every interleaving of the callbacks, the panel's refresh
\* loop and the main loop's poll, a value the user enters for the selected
\* Spring's rest length, stiffness or damping is never overwritten in the
\* dictionary by the value before it, and is eventually the Spring's.
EnteredValueApplied ==
    \A f \in Fields :
        /\ [](Standing(f))
        /\ (gui.entered[f] # Absent) ~> Applied(f)

=============================================================================
